---- MODULE Spec2Model ----
(***************************************************************************)
(* Model of the motion-bridge servers of BUKI-iot-movement-server.         *)
(*                                                                         *)
(* The repository holds several iterations of one express server.  Each    *)
(* owns a session table `sessions` (a plain JavaScript object used as a    *)
(* map from token to session), a background sweep on a timer, a /start     *)
(* and /update write path and /x, /y, /simple read paths.                  *)
(*                                                                         *)
(* JavaScript numbers are modelled as exact rationals extended with        *)
(* +Infinity, -Infinity and NaN, combined by the IEEE-754 rules for the    *)
(* special values.  The rounding error of binary floating point is not     *)
(* modelled.  Response bodies are sequences of one-character strings.      *)
(* Diagnostic fields that no handler reads back (console output, the       *)
(* health sub-record's request counters, sessionStats.lastActivity and     *)
(* sessionStats.totalPictobloxRequests, lastUpdateTime which always        *)
(* equals ts, the timestamp stored inside a history sample) are left out.  *)
(***************************************************************************)
EXTENDS Integers, Sequences, FiniteSets, TLC

VARIABLES
    server,        \* which iteration of the server is running
    sessions,      \* own properties of the `sessions` object: token -> session
    sessionStats,  \* first server of index.js: counters
    now,           \* Date.now(), milliseconds since the server started
    sweepDue,      \* time at which the setInterval callback fires next
    issued,        \* tokens that /start has returned so far
    inserted,      \* per token: the samples pushed to history since creation
    resp           \* the response to the request just handled

vars == <<server, sessions, sessionStats, now, sweepDue, issued, inserted, resp>>

----------------------------------------------------------------------------
(* Bounds of the model *)

MaxClock == 120001
MaxCreated == 2
MaxLifeUpdates == 2
MaxUpdates == 4
MaxUpdates2 == 9

----------------------------------------------------------------------------
(* JavaScript numbers *)

RECURSIVE GCD(_, _)
GCD(a, b) == IF b = 0 THEN a ELSE GCD(b, a % b)

IntAbs(n) == IF n < 0 THEN -n ELSE n

Fin(n, d) ==
    LET g == GCD(IntAbs(n), d)
    IN  [k |-> "fin", n |-> n \div g, d |-> d \div g]

Int2Num(n) == Fin(n, 1)
PosInf == [k |-> "inf", n |-> 1, d |-> 1]
NegInf == [k |-> "inf", n |-> -1, d |-> 1]
NaN == [k |-> "nan", n |-> 0, d |-> 1]

isNaN(a) == a.k = "nan"

\* a < b; false when either side is NaN
NumLt(a, b) ==
    /\ ~isNaN(a)
    /\ ~isNaN(b)
    /\ IF a.k = "inf" THEN a.n < 0 /\ ~(b.k = "inf" /\ b.n < 0)
       ELSE IF b.k = "inf" THEN b.n > 0
       ELSE a.n * b.d < b.n * a.d

NumGt(a, b) == NumLt(b, a)
NumLe(a, b) == ~isNaN(a) /\ ~isNaN(b) /\ ~NumLt(b, a)
NumGe(a, b) == NumLe(b, a)

\* a + b
NumAdd(a, b) ==
    IF isNaN(a) \/ isNaN(b) THEN NaN
    ELSE IF a.k = "inf" /\ b.k = "inf" THEN (IF a.n = b.n THEN a ELSE NaN)
    ELSE IF a.k = "inf" THEN a
    ELSE IF b.k = "inf" THEN b
    ELSE Fin(a.n * b.d + b.n * a.d, a.d * b.d)

\* a * (p / q) for integers p > 0, q > 0
NumScale(a, p, q) ==
    IF a.k = "fin" THEN Fin(a.n * p, a.d * q) ELSE a

NumNeg(a) == IF isNaN(a) THEN a ELSE [a EXCEPT !.n = -a.n]

\* a - b
NumSub(a, b) == NumAdd(a, NumNeg(b))

\* Math.abs
MathAbs(a) == IF NumLt(a, Int2Num(0)) THEN NumNeg(a) ELSE a

\* Math.max and Math.min of two numbers: NaN when either is NaN
MathMax(a, b) ==
    IF isNaN(a) \/ isNaN(b) THEN NaN ELSE IF NumLt(a, b) THEN b ELSE a

MathMin(a, b) ==
    IF isNaN(a) \/ isNaN(b) THEN NaN ELSE IF NumLt(b, a) THEN b ELSE a

\* Math.round: the nearest integer, ties towards +Infinity
MathRound(a) ==
    IF a.k = "fin" THEN Fin((2 * a.n + a.d) \div (2 * a.d), 1) ELSE a

----------------------------------------------------------------------------
(* Strings, as sequences of characters *)

Digit(n) ==
    CASE n = 0 -> "0" [] n = 1 -> "1" [] n = 2 -> "2" [] n = 3 -> "3"
      [] n = 4 -> "4" [] n = 5 -> "5" [] n = 6 -> "6" [] n = 7 -> "7"
      [] n = 8 -> "8" [] n = 9 -> "9"

RECURSIVE NatToString(_)
NatToString(n) ==
    IF n < 10 THEN <<Digit(n)>> ELSE NatToString(n \div 10) \o <<Digit(n % 10)>>

\* Number.prototype.toString / String(n) of an integer-valued number,
\* of NaN and of the infinities
NumToString(a) ==
    IF isNaN(a) THEN <<"N", "a", "N">>
    ELSE IF a.k = "inf"
         THEN (IF a.n < 0 THEN <<"-">> ELSE <<>>)
              \o <<"I", "n", "f", "i", "n", "i", "t", "y">>
    ELSE IF a.n < 0 THEN <<"-">> \o NatToString(-a.n)
    ELSE NatToString(a.n)

\* String.prototype.padStart(2, '0')
PadStart2(s) == IF Len(s) < 2 THEN <<"0">> \o s ELSE s

IsDigit(c) == c \in {"0", "1", "2", "3", "4", "5", "6", "7", "8", "9"}

\* the text matches X\d{2}Y\d{2}
IsScaleText(s) ==
    /\ Len(s) = 6
    /\ s[1] = "X" /\ IsDigit(s[2]) /\ IsDigit(s[3])
    /\ s[4] = "Y" /\ IsDigit(s[5]) /\ IsDigit(s[6])

X05Y05 == <<"X", "0", "5", "Y", "0", "5">>
Zero == <<"0">>

----------------------------------------------------------------------------
(* Requests *)

\* Tokens the generator of /start can produce (two of the strings of 8
\* characters it draws), and the tokens a client may send: those, a
\* well-formed token the modelled generator never produces, a name every
\* JavaScript object inherits from Object.prototype, and the empty (missing)
\* token.
GenTokens == {"22222222", "33333333"}
ProtoKeys == {"constructor"}
ReqTokens == GenTokens \cup {"99999999"} \cup ProtoKeys \cup {""}

\* The single phone of the smoothing runs
SmoothTokens == {"22222222"}
SmoothReqTokens == SmoothTokens \cup ProtoKeys

\* x and y of an /update body, as the phone sends them.
\* Session life cycle runs: a finite sample, an infinite one, and texts that
\* are no number.
LifecycleInputs ==
    { <<"4", "0">>, <<"Infinity", "-10">>, <<"abc", "0">>, <<"0", "abc">> }

\* Smoothing runs of the first server: three finite levels on x, the two
\* infinities on y, and a text that is no number.
SmoothInputs ==
    { <<"10", "Infinity">>, <<"0", "-Infinity">>, <<"4", "0">>, <<"abc", "0">> }

\* Smoothing runs of the second server: steps above and below the outlier
\* threshold, and a text that is no number.
SmoothInputs2 == { <<"8", "-8">>, <<"0", "abc">> }

\* parseFloat of the texts above
parseFloat(text) ==
    CASE text = "0" -> Int2Num(0)
      [] text = "4" -> Int2Num(4)
      [] text = "8" -> Int2Num(8)
      [] text = "10" -> Int2Num(10)
      [] text = "-8" -> Int2Num(-8)
      [] text = "-10" -> Int2Num(-10)
      [] text = "30" -> Int2Num(30)
      [] text = "-30" -> Int2Num(-30)
      [] text = "Infinity" -> PosInf
      [] text = "-Infinity" -> NegInf
      [] OTHER -> NaN

\* parseFloat(text) || 0: NaN and 0 are falsy
parseFloatOr0(text) ==
    IF isNaN(parseFloat(text)) THEN Int2Num(0) ELSE parseFloat(text)

TickSteps == {60000, 60001}
SmoothTickSteps == {120001}

----------------------------------------------------------------------------
(* The sessions object *)

\* token is an own property of sessions
HasOwn(token) == token \in DOMAIN sessions

\* sessions[token] is a member inherited from Object.prototype: a truthy
\* object none of whose session fields (x, y, ts, history, health) is defined
Inherited(token) == token \in ProtoKeys /\ ~HasOwn(token)

\* sessions[token] is truthy
Truthy(token) == HasOwn(token) \/ Inherited(token)

\* session.ts, session.x, session.y as numbers; undefined coerces to NaN
FieldTs(token) == IF HasOwn(token) THEN Int2Num(sessions[token].ts) ELSE NaN
FieldX(token) == IF HasOwn(token) THEN sessions[token].x ELSE NaN
FieldY(token) == IF HasOwn(token) THEN sessions[token].y ELSE NaN

\* Date.now() - session.ts
Age(token) == NumSub(Int2Num(now), FieldTs(token))

\* sessions with one key deleted / one key assigned
Without(S, gone) == [t \in (DOMAIN S) \ gone |-> S[t]]
Assign(S, token, v) == [t \in (DOMAIN S) \cup {token} |-> IF t = token THEN v ELSE S[t]]

\* what the client observes of a request: the endpoint, the HTTP status, the
\* error of a JSON error reply and the text of a plain-text reply
Reply(op, status, error, body) ==
    [op |-> op, status |-> status, error |-> error, body |-> body]

----------------------------------------------------------------------------
(* First server of src/index.js: simple moving average over 3 samples *)

ReadTTL == 60000
SweepTTL == 120000
SweepInterval == 120000
Window == 3

\* pushSample without the shift: a wrong variant that C26 must reject
pushSampleNoShift(history, sample) == Append(history, sample)

\* history.push(sample); if (history.length > 3) history.shift()
pushSample(history, sample) ==
    LET h == Append(history, sample)
    IN  IF Len(h) > Window THEN Tail(h) ELSE h

\* history.reduce((sum, sample) => sum + sample[axis], 0)
RECURSIVE reduceSum(_, _, _)
reduceSum(history, axis, n) ==
    IF n = 0 THEN Int2Num(0)
    ELSE NumAdd(reduceSum(history, axis, n - 1), history[n][axis])

\* average without the division: a wrong variant that C8 must reject
averageUndivided(history, axis) == reduceSum(history, axis, Len(history))

\* reduce(...) / history.length
average(history, axis) ==
    NumScale(reduceSum(history, axis, Len(history)), 1, Len(history))

\* the session object /start stores
newSession ==
    [x |-> Int2Num(0), y |-> Int2Num(0), ts |-> now, created |-> now,
     history |-> <<>>, updateCount |-> 0]

\* POST /start
Start(token) ==
    /\ server = "index1"
    /\ sessions' = Assign(sessions, token, newSession)
    /\ sessionStats' = [sessionStats EXCEPT
                          !.totalCreated = @ + 1,
                          !.currentActive = Cardinality(DOMAIN sessions')]
    /\ issued' = issued \cup {token}
    /\ inserted' = [inserted EXCEPT ![token] = <<>>]
    /\ resp' = Reply("start", 200, "", <<>>)
    /\ UNCHANGED <<server, now, sweepDue>>

\* a request that is answered with an error and changes nothing
Rejected(op, status, error) ==
    /\ resp' = Reply(op, status, error, <<>>)
    /\ UNCHANGED <<sessions, sessionStats, inserted>>

\* applyUpdate without the refresh of ts: a wrong variant that C16 must reject
applyUpdateKeepsTs(token, newX, newY) ==
    LET session == sessions[token]
        history == pushSample(session.history, [x |-> newX, y |-> newY])
    IN  /\ sessions' = [sessions EXCEPT ![token] =
                          [session EXCEPT !.history = history,
                                          !.x = average(history, "x"),
                                          !.y = average(history, "y"),
                                          !.updateCount = @ + 1]]
        /\ sessionStats' = [sessionStats EXCEPT !.totalUpdates = @ + 1]
        /\ inserted' = [inserted EXCEPT ![token] = Append(@, [x |-> newX, y |-> newY])]
        /\ resp' = Reply("update", 200, "", <<>>)

\* applyUpdate storing the raw sample as x and y: a wrong variant that C27
\* must reject
applyUpdateRaw(token, newX, newY) ==
    LET session == sessions[token]
        history == pushSample(session.history, [x |-> newX, y |-> newY])
    IN  /\ sessions' = [sessions EXCEPT ![token] =
                          [session EXCEPT !.history = history,
                                          !.x = newX,
                                          !.y = newY,
                                          !.ts = now,
                                          !.updateCount = @ + 1]]
        /\ sessionStats' = [sessionStats EXCEPT !.totalUpdates = @ + 1]
        /\ inserted' = [inserted EXCEPT ![token] = Append(@, [x |-> newX, y |-> newY])]
        /\ resp' = Reply("update", 200, "", <<>>)

\* the accepted path of POST /update
applyUpdate(token, newX, newY) ==
    LET session == sessions[token]
        history == pushSample(session.history, [x |-> newX, y |-> newY])
        avgX == average(history, "x")
        avgY == average(history, "y")
    IN  /\ sessions' = [sessions EXCEPT ![token] =
                          [session EXCEPT !.history = history,
                                          !.x = avgX,
                                          !.y = avgY,
                                          !.ts = now,
                                          !.updateCount = @ + 1]]
        /\ sessionStats' = [sessionStats EXCEPT !.totalUpdates = @ + 1]
        /\ inserted' = [inserted EXCEPT ![token] = Append(@, [x |-> newX, y |-> newY])]
        /\ resp' = Reply("update", 200, "", <<>>)

\* Update creating a session for a token the store does not hold: a wrong
\* variant that C35 must reject
UpdateRecreates(token, x, y) ==
    /\ server = "index1"
    /\ LET newX == parseFloat(x)
           newY == parseFloat(y)
       IN  IF token = ""
           THEN Rejected("update", 400, "Missing token")
           ELSE IF ~Truthy(token)
           THEN /\ sessions' = Assign(sessions, token, newSession)
                /\ resp' = Reply("update", 200, "", <<>>)
                /\ UNCHANGED <<sessionStats, inserted>>
           ELSE IF isNaN(newX) \/ isNaN(newY)
           THEN Rejected("update", 400, "Invalid motion data - must be numbers")
           ELSE IF Inherited(token)
           THEN Rejected("update", 500, "Update failed")
           ELSE applyUpdate(token, newX, newY)
    /\ UNCHANGED <<server, now, sweepDue, issued>>

\* POST /update with body {token, x, y}
Update(token, x, y) ==
    /\ server = "index1"
    /\ LET newX == parseFloat(x)
           newY == parseFloat(y)
       IN  IF token = ""
           THEN Rejected("update", 400, "Missing token")
           ELSE IF ~Truthy(token)
           THEN Rejected("update", 400, "Invalid or expired token")
           ELSE IF isNaN(newX) \/ isNaN(newY)
           THEN Rejected("update", 400, "Invalid motion data - must be numbers")
           ELSE IF Inherited(token)
           \* session.history is undefined: push throws, the catch answers
           THEN Rejected("update", 500, "Update failed")
           ELSE applyUpdate(token, newX, newY)
    /\ UNCHANGED <<server, now, sweepDue, issued>>

\* timestamp - session.ts > 60000
isStale(token) == NumGt(Age(token), Int2Num(ReadTTL))

\* the staleness test of /y with the boundary included: a wrong variant that
\* C18 must reject
isStaleYInclusive(token) == NumGe(Age(token), Int2Num(ReadTTL))

\* the staleness tests of /y and of /simple
isStaleY(token) == NumGt(Age(token), Int2Num(ReadTTL))
isStaleSimple(token) == NumGt(Age(token), Int2Num(ReadTTL))

\* Math.max(-4, Math.min(4, Math.round(v * 1.0)))
movement(v) ==
    MathMax(Int2Num(-4), MathMin(Int2Num(4), MathRound(NumScale(v, 1, 1))))

\* body of GET /x/:token
xBody(token) ==
    IF ~Truthy(token) THEN Zero
    ELSE IF isStale(token) THEN Zero
    ELSE NumToString(movement(FieldX(token)))

\* body of GET /y/:token
yBody(token) ==
    IF ~Truthy(token) THEN Zero
    ELSE IF isStaleY(token) THEN Zero
    ELSE NumToString(movement(FieldY(token)))

\* Math.round(((curved + 1) / 2) * 8) for curved = sign(n) * sqrt(|n|),
\* n = p / q in [-1, 1]: the largest integer j with j <= 4 * curved + 4.5
roundCurve(neg, p, q) ==
    IF neg
    THEN CHOOSE j \in 0..4 :
            /\ 64 * p <= (9 - 2 * j) * (9 - 2 * j) * q
            /\ \A i \in (j + 1)..4 : 64 * p > (9 - 2 * i) * (9 - 2 * i) * q
    ELSE 4 + (CHOOSE m \in 0..4 :
            /\ m = 0 \/ (2 * m - 1) * (2 * m - 1) * q <= 64 * p
            /\ \A i \in (m + 1)..4 : (2 * i - 1) * (2 * i - 1) * q > 64 * p)

\* mapToScale without the final + 1: a wrong variant that C21 must reject
mapToScaleNoOffset(velocity) ==
    LET clamped == MathMax(Int2Num(-10), MathMin(Int2Num(10), velocity))
    IN  IF isNaN(clamped) THEN NaN
        ELSE LET scaled == roundCurve(clamped.n < 0, IntAbs(clamped.n), 10 * clamped.d)
             IN  MathMax(Int2Num(1), MathMin(Int2Num(9), Int2Num(scaled)))

\* mapToScale of /simple: clamp to [-10, 10], normalise, square-root curve,
\* map to 1..9
mapToScale(velocity) ==
    LET clamped == MathMax(Int2Num(-10), MathMin(Int2Num(10), velocity))
    IN  IF isNaN(clamped) THEN NaN
        ELSE LET scaled == roundCurve(clamped.n < 0, IntAbs(clamped.n), 10 * clamped.d) + 1
             IN  MathMax(Int2Num(1), MathMin(Int2Num(9), Int2Num(scaled)))

\* `X${String(xScaled).padStart(2, '0')}Y${String(yScaled).padStart(2, '0')}`
formatXY(xScaled, yScaled) ==
    <<"X">> \o PadStart2(NumToString(xScaled)) \o <<"Y">> \o PadStart2(NumToString(yScaled))

\* the range validation of /simple: both axes are centred when either is extreme
extreme(x, y) == NumGt(MathAbs(x), Int2Num(12)) \/ NumGt(MathAbs(y), Int2Num(12))

\* validX and validY of /simple: the stored values, or 0 and 0 when extreme
validX(token) ==
    IF extreme(FieldX(token), FieldY(token)) THEN Int2Num(0) ELSE FieldX(token)

validY(token) ==
    IF extreme(FieldX(token), FieldY(token)) THEN Int2Num(0) ELSE FieldY(token)

\* xScaled and yScaled of /simple
xScaled(token) == mapToScale(validX(token))
yScaled(token) == mapToScale(validY(token))

\* body of GET /simple/:token
simpleBody(token) ==
    IF ~Truthy(token) THEN X05Y05
    ELSE IF isStaleSimple(token) THEN X05Y05
    \* session.health is undefined: the assignment throws, the catch answers
    ELSE IF Inherited(token) THEN X05Y05
    ELSE formatXY(xScaled(token), yScaled(token))

\* GET /x/:token, GET /y/:token, GET /simple/:token: always status 200
ReadX(token) ==
    /\ server = "index1"
    /\ resp' = Reply("x", 200, "", xBody(token))
    /\ UNCHANGED <<server, sessions, sessionStats, now, sweepDue, issued, inserted>>

ReadY(token) ==
    /\ server = "index1"
    /\ resp' = Reply("y", 200, "", yBody(token))
    /\ UNCHANGED <<server, sessions, sessionStats, now, sweepDue, issued, inserted>>

ReadSimple(token) ==
    /\ server = "index1"
    /\ resp' = Reply("simple", 200, "", simpleBody(token))
    /\ UNCHANGED <<server, sessions, sessionStats, now, sweepDue, issued, inserted>>

\* expired with the boundary included: a wrong variant that C5 must reject
expiredAtBoundary(token) == now - sessions[token].ts >= SweepTTL

\* expired with twice the threshold: a wrong variant that C25 must reject
expiredLate(token) == now - sessions[token].ts > 2 * SweepTTL

\* now - sessions[token].ts > 120000
expired(token) == now - sessions[token].ts > SweepTTL

\* Sweep leaving currentActive as it was: a wrong variant that C38 must reject
SweepKeepsCount ==
    /\ server = "index1"
    /\ now >= sweepDue
    /\ sessions' = Without(sessions, {t \in DOMAIN sessions : expired(t)})
    /\ resp' = Reply("sweep", 0, "", <<>>)
    /\ sweepDue' = now + SweepInterval
    /\ UNCHANGED <<server, sessionStats, now, issued, inserted>>

\* the setInterval callback: delete every expired session
Sweep ==
    /\ server = "index1"
    /\ now >= sweepDue
    /\ LET gone == {t \in DOMAIN sessions : expired(t)}
       IN  /\ sessions' = Without(sessions, gone)
           /\ sessionStats' = [sessionStats EXCEPT
                                 !.currentActive = Cardinality(DOMAIN sessions')]
           /\ resp' = Reply("sweep", 0, "", <<>>)
    /\ sweepDue' = now + SweepInterval
    /\ UNCHANGED <<server, now, issued, inserted>>

\* time passes; a due timer callback runs before more time passes
Tick(d) ==
    /\ now < sweepDue
    /\ now + d <= MaxClock
    /\ now' = now + d
    /\ resp' = Reply("tick", 0, "", <<>>)
    /\ UNCHANGED <<server, sessions, sessionStats, sweepDue, issued, inserted>>

----------------------------------------------------------------------------
(* Second server of src/index.js: outlier blend, quadratic weights, 8 samples *)

Window2 == 8
OutlierDelta == 5

\* the session object /start stores
newSession2 == [x |-> Int2Num(0), y |-> Int2Num(0), ts |-> now, history |-> <<>>]

\* POST /start
Start2(token) ==
    /\ server = "index2"
    /\ sessions' = Assign(sessions, token, newSession2)
    /\ issued' = issued \cup {token}
    /\ inserted' = [inserted EXCEPT ![token] = <<>>]
    /\ resp' = Reply("start", 200, "", <<>>)
    /\ UNCHANGED <<server, sessionStats, now, sweepDue>>

\* deltaX > 5 ? lastSample.x * 0.6 + newX * 0.4 : newX
blend(last, new) ==
    IF NumGt(MathAbs(NumSub(new, last)), Int2Num(OutlierDelta))
    THEN NumAdd(NumScale(last, 3, 5), NumScale(new, 2, 5))
    ELSE new

\* filterSample blending against the oldest sample of the history: a wrong
\* variant that C28 must reject
filterSampleAgainstOldest(history, newX, newY) ==
    IF Len(history) > 0
    THEN [x |-> blend(history[1].x, newX),
          y |-> blend(history[1].y, newY)]
    ELSE [x |-> newX, y |-> newY]

\* filterSample blending the first sample against the zero a new session
\* stores: a wrong variant that C29 must reject
filterSampleBlendsFirst(history, newX, newY) ==
    IF Len(history) > 0
    THEN [x |-> blend(history[Len(history)].x, newX),
          y |-> blend(history[Len(history)].y, newY)]
    ELSE [x |-> blend(Int2Num(0), newX), y |-> blend(Int2Num(0), newY)]

\* the sample pushed for a raw sample: blended against the last stored sample
filterSample(history, newX, newY) ==
    IF Len(history) > 0
    THEN [x |-> blend(history[Len(history)].x, newX),
          y |-> blend(history[Len(history)].y, newY)]
    ELSE [x |-> newX, y |-> newY]

\* pushSample2 dropping the newest sample: a wrong variant that C7 must reject
pushSample2DropsNewest(history, sample) ==
    LET h == Append(history, sample)
    IN  IF Len(h) > Window2 THEN SubSeq(h, 1, Window2) ELSE h

\* history.push(sample); if (history.length > 8) history.shift()
pushSample2(history, sample) ==
    LET h == Append(history, sample)
    IN  IF Len(h) > Window2 THEN Tail(h) ELSE h

\* forEach((sample, index) => weighted += sample[axis] * (index + 1) * (index + 1))
RECURSIVE weightedSum(_, _, _)
weightedSum(history, axis, n) ==
    IF n = 0 THEN Int2Num(0)
    ELSE NumAdd(weightedSum(history, axis, n - 1), NumScale(history[n][axis], n * n, 1))

RECURSIVE totalWeight(_)
totalWeight(n) == IF n = 0 THEN 0 ELSE totalWeight(n - 1) + n * n

\* weighted / totalWeight
weightedAverage(history, axis) ==
    NumScale(weightedSum(history, axis, Len(history)), 1, totalWeight(Len(history)))

\* POST /update with body {token, x, y}, for a token that is no name
\* inherited from Object.prototype
Update2(token, x, y) ==
    /\ server = "index2"
    /\ token \notin ProtoKeys
    /\ IF token = "" \/ ~Truthy(token)
       THEN Rejected("update", 400, "Invalid token")
       ELSE LET session == sessions[token]
                sample == filterSample(session.history, parseFloatOr0(x), parseFloatOr0(y))
                history == pushSample2(session.history, sample)
            IN  /\ sessions' = [sessions EXCEPT ![token] =
                                  [session EXCEPT !.history = history,
                                                  !.x = weightedAverage(history, "x"),
                                                  !.y = weightedAverage(history, "y"),
                                                  !.ts = now]]
                /\ inserted' = [inserted EXCEPT ![token] = Append(@, sample)]
                /\ resp' = Reply("update", 200, "", <<>>)
                /\ UNCHANGED sessionStats
    /\ UNCHANGED <<server, now, sweepDue, issued>>

\* Math.max(1, Math.min(9, Math.round(v * 1.33) + 5))
scale2(v) ==
    MathMax(Int2Num(1),
            MathMin(Int2Num(9), NumAdd(MathRound(NumScale(v, 133, 100)), Int2Num(5))))

\* body of GET /simple/:token: `X0${xScaled}Y0${yScaled}`
simpleBody2(token) ==
    IF ~Truthy(token) \/ isStale(token) THEN X05Y05
    ELSE <<"X", "0">> \o NumToString(scale2(FieldX(token)))
         \o <<"Y", "0">> \o NumToString(scale2(FieldY(token)))

\* GET /x/:token, GET /y/:token, GET /simple/:token: always status 200
ReadX2(token) ==
    /\ server = "index2"
    /\ resp' = Reply("x", 200, "", xBody(token))
    /\ UNCHANGED <<server, sessions, sessionStats, now, sweepDue, issued, inserted>>

ReadY2(token) ==
    /\ server = "index2"
    /\ resp' = Reply("y", 200, "", yBody(token))
    /\ UNCHANGED <<server, sessions, sessionStats, now, sweepDue, issued, inserted>>

ReadSimple2(token) ==
    /\ server = "index2"
    /\ resp' = Reply("simple", 200, "", simpleBody2(token))
    /\ UNCHANGED <<server, sessions, sessionStats, now, sweepDue, issued, inserted>>

\* the setInterval callback: delete every expired session
Sweep2 ==
    /\ server = "index2"
    /\ now >= sweepDue
    /\ sessions' = Without(sessions, {t \in DOMAIN sessions : expired(t)})
    /\ resp' = Reply("sweep", 0, "", <<>>)
    /\ sweepDue' = now + SweepInterval
    /\ UNCHANGED <<server, sessionStats, now, issued, inserted>>

----------------------------------------------------------------------------
(* Specifications *)

InitServer(name) ==
    /\ server = name
    /\ sessions = <<>>
    /\ sessionStats = [totalCreated |-> 0, totalUpdates |-> 0, currentActive |-> 0]
    /\ now = 0
    /\ sweepDue = SweepInterval
    /\ issued = {}
    /\ inserted = [t \in GenTokens |-> <<>>]
    /\ resp = Reply("init", 0, "", <<>>)

\* The first server of src/index.js with two phones: session life cycle
Init == InitServer("index1")

Next ==
    \/ \E token \in GenTokens :
          sessionStats.totalCreated < MaxCreated /\ Start(token)
    \/ \E token \in ReqTokens, m \in LifecycleInputs :
          sessionStats.totalUpdates < MaxLifeUpdates /\ Update(token, m[1], m[2])
    \/ \E token \in ReqTokens : ReadX(token)
    \/ \E token \in ReqTokens : ReadY(token)
    \/ \E token \in ReqTokens : ReadSimple(token)
    \/ Sweep
    \/ \E d \in TickSteps : Tick(d)

Spec == Init /\ [][Next]_vars

\* The first and the second server of src/index.js with one phone: smoothing
InitSmooth == \E name \in {"index1", "index2"} : InitServer(name)

NextSmooth ==
    \/ \E token \in SmoothTokens :
          sessionStats.totalCreated < MaxCreated /\ Start(token)
    \/ \E token \in SmoothReqTokens, m \in SmoothInputs :
          sessionStats.totalUpdates < MaxUpdates /\ Update(token, m[1], m[2])
    \/ \E token \in SmoothReqTokens : ReadX(token)
    \/ \E token \in SmoothReqTokens : ReadY(token)
    \/ \E token \in SmoothReqTokens : ReadSimple(token)
    \/ Sweep
    \/ \E token \in SmoothTokens : Start2(token)
    \/ \E token \in SmoothReqTokens, m \in SmoothInputs2 :
          /\ \A t \in DOMAIN sessions : Len(inserted[t]) < MaxUpdates2
          /\ Update2(token, m[1], m[2])
    \/ \E token \in SmoothReqTokens : ReadX2(token)
    \/ \E token \in SmoothReqTokens : ReadY2(token)
    \/ \E token \in SmoothReqTokens : ReadSimple2(token)
    \/ Sweep2
    \/ \E d \in SmoothTickSteps : Tick(d)

SpecSmooth == InitSmooth /\ [][NextSmooth]_vars

----------------------------------------------------------------------------
(* Claims *)

isFinite(a) == a.k = "fin"

\* tokens a request can carry in its path or body (the empty one is no token)
SentTokens == ReqTokens \ {""}

\* C1: in the first server, POST /update with a token that is no key of the
\* store answers 400 with the invalid-token error, creates no session and
\* leaves every session and totalUpdates as they were.
C1_UnknownTokenRejected ==
    [][\A token \in SentTokens, m \in LifecycleInputs :
          (~HasOwn(token) /\ Update(token, m[1], m[2]))
          => /\ resp'.status = 400
             /\ resp'.error = "Invalid or expired token"
             /\ sessions' = sessions
             /\ sessionStats'.totalUpdates = sessionStats.totalUpdates]_vars

\* C2: in the first server, POST /update for an existing token whose x or y
\* does not parse as a finite number is rejected with the invalid-motion-data
\* error and the session is exactly what it was.
C2_NonFiniteRejected ==
    [][\A token \in GenTokens, m \in LifecycleInputs :
          ( /\ HasOwn(token)
            /\ ~isFinite(parseFloat(m[1])) \/ ~isFinite(parseFloat(m[2]))
            /\ Update(token, m[1], m[2]) )
          => /\ resp'.status = 400
             /\ resp'.error = "Invalid motion data - must be numbers"
             /\ sessions'[token] = sessions[token]]_vars

\* C3: a token that /start never returned reads as the sentinel on every read
\* endpoint: X05Y05 on /simple, 0 on /x and /y.
C3_NeverIssuedReadsSentinel ==
    \A token \in SentTokens \ issued :
        /\ simpleBody(token) = X05Y05
        /\ xBody(token) = Zero
        /\ yBody(token) = Zero

\* C4: in the first server, a stale session reads exactly as an unknown token
\* does, on /simple, /x and /y.
C4_StaleReadsAsUnknown ==
    \A stale \in DOMAIN sessions, unknown \in SentTokens \ DOMAIN sessions :
        now - sessions[stale].ts > 60000
        => /\ simpleBody(stale) = simpleBody(unknown)
           /\ xBody(stale) = xBody(unknown)
           /\ yBody(stale) = yBody(unknown)

\* C5: in the first server, one run of the sweep at time now removes every
\* session with now - ts > 120000 and no other, and leaves the fields of the
\* sessions it keeps unchanged.
C5_SweepRemovesExactlyExpired ==
    [][Sweep =>
          /\ \A t \in DOMAIN sessions :
                (t \in DOMAIN sessions') <=> (now - sessions[t].ts <= 120000)
          /\ DOMAIN sessions' \subseteq DOMAIN sessions
          /\ \A t \in DOMAIN sessions' : sessions'[t] = sessions[t]]_vars

\* a sweep has just removed a session and kept another
C5_Witness ==
    /\ resp.op = "sweep"
    /\ issued \ DOMAIN sessions # {}
    /\ DOMAIN sessions # {}

\* the filtered value of an axis lies within the samples of the history
withinHistory(session, axis) ==
    /\ \E i \in 1..Len(session.history) : NumLe(session.history[i][axis], session[axis])
    /\ \E i \in 1..Len(session.history) : NumLe(session[axis], session.history[i][axis])

\* C6: after any sequence of accepted updates, the filtered value of each
\* axis lies between the minimum and the maximum of the samples stored in
\* the session's history, for the simple and for the weighted average.
C6_FilteredWithinHistory ==
    \A t \in DOMAIN sessions :
        sessions[t].history # <<>>
        => withinHistory(sessions[t], "x") /\ withinHistory(sessions[t], "y")

\* the last n elements of a sequence
LastN(seq, n) == SubSeq(seq, Len(seq) - n + 1, Len(seq))

WindowOf(name) == IF name = "index1" THEN 3 ELSE 8

\* C7: after every completed /update the history holds at most W samples
\* (3 in the first server, 8 in the second) and is the last min(n, W) samples
\* pushed, in arrival order.
C7_HistoryIsLastW ==
    \A t \in DOMAIN sessions :
        LET n == Len(inserted[t])
            W == WindowOf(server)
        IN  /\ Len(sessions[t].history) <= W
            /\ sessions[t].history = LastN(inserted[t], IF n < W THEN n ELSE W)

\* the second server has dropped a sample from a full history
C7_Witness ==
    /\ server = "index2"
    /\ \E t \in DOMAIN sessions :
          /\ Len(inserted[t]) > 8
          /\ Len(sessions[t].history) = 8
          /\ sessions[t].history[1] # inserted[t][1]

\* raw sample, filtered value before and filtered value after an accepted
\* update of the first server never move apart
towards(r, f, f2) ==
    /\ NumGt(r, f) => NumGe(f2, f)
    /\ NumLt(r, f) => NumLe(f2, f)

\* C8, as stated, for finite samples and finite filtered values: in the first
\* server every accepted update leaves the filtered value of each axis on the
\* side of the raw sample, for any history contents.
C8_MovesTowardsRaw ==
    [][\A token \in SmoothTokens, m \in SmoothInputs :
          ( /\ server = "index1"
            /\ HasOwn(token)
            /\ Update(token, m[1], m[2])
            /\ resp'.status = 200
            /\ isFinite(sessions[token].x) /\ isFinite(sessions'[token].x)
            /\ isFinite(parseFloat(m[1])) )
          => towards(parseFloat(m[1]), sessions[token].x, sessions'[token].x)]_vars

\* the filtered value is not on the far side of where it was
notAway(r, f, f2) ==
    /\ NumGt(r, f) => ~NumLt(f2, f)
    /\ NumLt(r, f) => ~NumGt(f2, f)

\* C8 amended: in the first server an accepted update of a session whose
\* history holds fewer than 3 samples, so that no sample is dropped, never
\* moves the filtered value of an axis away from the raw sample.
C8_NotAwayWhileFilling ==
    [][\A token \in SmoothTokens, m \in SmoothInputs :
          ( /\ server = "index1"
            /\ HasOwn(token)
            /\ Update(token, m[1], m[2])
            /\ resp'.status = 200
            /\ Len(sessions[token].history) < 3 )
          => /\ notAway(parseFloat(m[1]), sessions[token].x, sessions'[token].x)
             /\ notAway(parseFloat(m[2]), sessions[token].y, sessions'[token].y)]_vars

\* an accepted update has moved x from 10 to 5 with the raw sample 0
C8_Witness ==
    /\ server = "index1"
    /\ resp.op = "update" /\ resp.status = 200
    /\ \E t \in DOMAIN sessions :
          /\ Len(sessions[t].history) = 2
          /\ sessions[t].history[1].x = Int2Num(10)
          /\ sessions[t].history[2].x = Int2Num(0)
          /\ sessions[t].x = Int2Num(5)

\* an integer number in 1..9
isScale(a) == isFinite(a) /\ a.d = 1 /\ a.n \in 1..9

\* C9: for every stored x and y reachable through accepted updates, each
\* axis value the scale mapping of /simple produces is an integer in 1..9.
C9_ScaleInRange ==
    \A t \in DOMAIN sessions :
        IF server = "index1"
        THEN isScale(xScaled(t)) /\ isScale(yScaled(t))
        ELSE isScale(scale2(FieldX(t))) /\ isScale(scale2(FieldY(t)))

\* C10: every response of /simple of the first server, for a fresh, a stale
\* or an unknown token, is exactly 6 characters: X, two digits, Y, two digits.
C10_SimpleIsSixCharacters ==
    server = "index1" => \A token \in SentTokens : IsScaleText(simpleBody(token))

----------------------------------------------------------------------------
(* src/unnamed/part_004: capacity limit, collision retry, update throttle *)

\* MAX_SESSIONS is 100 in the source; the model runs the same code with a
\* small capacity so that a full store is reached
MAX_SESSIONS == 2
MAX_ATTEMPTS == 50
SESSION_TIMEOUT == 180000
CLEANUP_INTERVAL == 60000
ThrottleMs == 20
ClampXY == 15

\* bounds of the runs of part_004
MaxBurst == 39
MaxClock4 == 180041
MaxUpdates4 == 2

\* tokens the generator can draw (8 characters of clearChars), the one key of
\* Object.prototype that has 8 characters, and the tokens a client may send
GenTokens4 == {"22222222", "33333333"}
ProtoKeys4 == {"toString"}
ReqTokens4 == GenTokens4 \cup ProtoKeys4 \cup {""}
Inputs4 == {<<"Infinity", "-10">>, <<"abc", "0">>}

\* Object.keys(sessions): integer-like keys in ascending order, then the
\* other keys in insertion order
KeyOrder4 == <<"22222222", "33333333", "toString">>
ObjectKeys(S) == SelectSeq(KeyOrder4, LAMBDA k : k \in DOMAIN S)

\* sessions[token] is truthy in part_004
Truthy4(S, token) == token \in DOMAIN S \/ token \in ProtoKeys4

\* the elements of a sequence
Range(seq) == {seq[i] : i \in 1..Len(seq)}

\* keys.sort((a, b) => sessions[a].ts - sessions[b].ts): a stable sort
RECURSIVE sortByTs(_, _)
sortByTs(keys, S) ==
    IF keys = <<>> THEN <<>>
    ELSE LET rest == sortByTs(SubSeq(keys, 1, Len(keys) - 1), S)
             k == keys[Len(keys)]
             before == SelectSeq(rest, LAMBDA a : S[a].ts <= S[k].ts)
             after == SelectSeq(rest, LAMBDA a : S[a].ts > S[k].ts)
         IN  before \o <<k>> \o after

\* the sessions the first loop of cleanupSessions deletes
expired4(S, t) == {token \in DOMAIN S : t - S[token].ts > SESSION_TIMEOUT}

\* toRemove taking the most recently updated sessions: a wrong variant that
\* C15 must reject
toRemoveNewest(S, t) ==
    LET live == Without(S, expired4(S, t))
        sortedSessions == sortByTs(SelectSeq(ObjectKeys(S), LAMBDA k : k \in DOMAIN live), live)
    IN  IF Len(ObjectKeys(S)) - Cardinality(expired4(S, t)) > MAX_SESSIONS
        THEN Range(SubSeq(sortedSessions, MAX_SESSIONS + 1, Len(sortedSessions)))
        ELSE {}

\* the sessions the emergency branch of cleanupSessions deletes
toRemove(S, t) ==
    LET sessionKeys == ObjectKeys(S)
        cleanedCount == Cardinality(expired4(S, t))
        live == Without(S, expired4(S, t))
        sortedSessions == sortByTs(SelectSeq(sessionKeys, LAMBDA k : k \in DOMAIN live), live)
    IN  IF Len(sessionKeys) - cleanedCount > MAX_SESSIONS
        THEN Range(SubSeq(sortedSessions, 1, Len(sortedSessions) - MAX_SESSIONS))
        ELSE {}

\* the store cleanupSessions leaves
cleanupSessions(S, t) == Without(S, expired4(S, t) \cup toRemove(S, t))

\* generateToken without the retry: a wrong variant that C11 must reject
generateTokenNoRetry(S, draws, attempts) ==
    [token |-> draws[attempts], attempts |-> attempts]

\* the do-while loop of /start over the random draws: the token it ends
\* with and the number of attempts made
RECURSIVE generateToken(_, _, _)
generateToken(S, draws, attempts) ==
    IF Truthy4(S, draws[attempts]) /\ attempts < MAX_ATTEMPTS
    THEN generateToken(S, draws, attempts + 1)
    ELSE [token |-> draws[attempts], attempts |-> attempts]

\* the random draws of one /start: the same token `first` until draw number
\* `switch`, the token `last` from then on
Draws(first, switch, last) == [i \in 1..MAX_ATTEMPTS |-> IF i < switch THEN first ELSE last]
Switches == {1, 2, MAX_ATTEMPTS - 1, MAX_ATTEMPTS}

newSession4 ==
    [x |-> Int2Num(0), y |-> Int2Num(0), ts |-> now, created |-> now,
     requestCount |-> 0, lastUpdate |-> now]

Reply4(op, status, error, token, throttled) ==
    [op |-> op, status |-> status, error |-> error, token |-> token,
     throttled |-> throttled]

\* POST /start
Start4(draws) ==
    /\ server = "part_004"
    /\ LET cleaned == cleanupSessions(sessions, now)
           got == generateToken(cleaned, draws, 1)
       IN  IF Cardinality(DOMAIN cleaned) >= MAX_SESSIONS
           THEN /\ sessions' = cleaned
                /\ resp' = Reply4("start", 503, "Server at capacity. Please try again in a moment.", "", FALSE)
                /\ UNCHANGED <<issued, inserted>>
           ELSE IF got.attempts >= MAX_ATTEMPTS
           THEN /\ sessions' = cleaned
                /\ resp' = Reply4("start", 500, "Unable to generate unique token. Please try again.", "", FALSE)
                /\ UNCHANGED <<issued, inserted>>
           ELSE /\ sessions' = Assign(cleaned, got.token, newSession4)
                /\ issued' = issued \cup {got.token}
                /\ inserted' = [inserted EXCEPT ![got.token] = <<>>]
                /\ resp' = Reply4("start", 200, "", got.token, FALSE)
    /\ UNCHANGED <<server, sessionStats, now, sweepDue>>

\* clamp4 without the upper limit: a wrong variant that C36 must reject
clamp4LowerOnly(v) == MathMax(Int2Num(0 - ClampXY), v)

\* Math.max(-15, Math.min(15, v))
clamp4(v) == MathMax(Int2Num(0 - ClampXY), MathMin(Int2Num(ClampXY), v))

\* throttled4 with the boundary included: a wrong variant that C13 must reject
throttled4Inclusive(token) ==
    /\ token \in DOMAIN sessions
    /\ now - sessions[token].lastUpdate <= ThrottleMs

\* now - session.lastUpdate < 20; a missing lastUpdate makes the difference NaN
throttled4(token) ==
    /\ token \in DOMAIN sessions
    /\ now - sessions[token].lastUpdate < ThrottleMs

\* the session /update stores: {...session, x, y, ts, lastUpdate, requestCount}
updated4(token, clampedX, clampedY) ==
    IF token \in DOMAIN sessions
    THEN [sessions[token] EXCEPT !.x = clampedX, !.y = clampedY, !.ts = now,
                                 !.lastUpdate = now, !.requestCount = @ + 1]
    ELSE [x |-> clampedX, y |-> clampedY, ts |-> now, lastUpdate |-> now,
          requestCount |-> 1]

\* POST /update with body {token, x, y}
Update4(token, x, y) ==
    /\ server = "part_004"
    /\ LET numX == parseFloat(x)
           numY == parseFloat(y)
       IN  IF token = "" \/ Len(token) # 8
           THEN /\ resp' = Reply4("update", 400, "Invalid token format", "", FALSE)
                /\ UNCHANGED <<sessions, inserted>>
           ELSE IF ~Truthy4(sessions, token)
           THEN /\ resp' = Reply4("update", 404, "Session not found or expired", "", FALSE)
                /\ UNCHANGED <<sessions, inserted>>
           ELSE IF isNaN(numX) \/ isNaN(numY)
           THEN /\ resp' = Reply4("update", 400, "Invalid motion data", "", FALSE)
                /\ UNCHANGED <<sessions, inserted>>
           ELSE IF throttled4(token)
           THEN /\ resp' = Reply4("update", 200, "", "", TRUE)
                /\ UNCHANGED <<sessions, inserted>>
           ELSE /\ sessions' = Assign(sessions, token, updated4(token, clamp4(numX), clamp4(numY)))
                /\ inserted' = [inserted EXCEPT ![token] =
                                  Append(@, [x |-> clamp4(numX), y |-> clamp4(numY), at |-> now])]
                /\ resp' = Reply4("update", 200, "", "", FALSE)
    /\ UNCHANGED <<server, sessionStats, now, sweepDue, issued>>

\* the setInterval callback: cleanupSessions every CLEANUP_INTERVAL
Sweep4 ==
    /\ server = "part_004"
    /\ now >= sweepDue
    /\ sessions' = cleanupSessions(sessions, now)
    /\ sweepDue' = now + CLEANUP_INTERVAL
    /\ resp' = Reply4("sweep", 0, "", "", FALSE)
    /\ UNCHANGED <<server, sessionStats, now, issued, inserted>>

\* time passes: a few milliseconds within a burst of requests, or a pause
\* longer than SESSION_TIMEOUT
Pause4 == SESSION_TIMEOUT + 1
Tick4(d) ==
    /\ server = "part_004"
    /\ now < sweepDue \/ d < Pause4
    /\ IF d < Pause4
       THEN (now % Pause4) + d <= MaxBurst
       ELSE now + d <= MaxClock4
    /\ now' = now + d
    /\ resp' = Reply4("tick", 0, "", "", FALSE)
    /\ UNCHANGED <<server, sessions, sessionStats, sweepDue, issued, inserted>>

Init4 ==
    /\ server = "part_004"
    /\ sessions = <<>>
    /\ sessionStats = [totalCreated |-> 0, totalUpdates |-> 0, currentActive |-> 0]
    /\ now = 0
    /\ sweepDue = CLEANUP_INTERVAL
    /\ issued = {}
    /\ inserted = [t \in GenTokens4 \cup ProtoKeys4 |-> <<>>]
    /\ resp = Reply4("init", 0, "", "", FALSE)

\* the number of updates applied so far to the sessions now logged
RECURSIVE SumLen(_, _)
SumLen(log, keys) ==
    IF keys = {} THEN 0
    ELSE LET k == CHOOSE k \in keys : TRUE
         IN  Len(log[k]) + SumLen(log, keys \ {k})
accepted4 == SumLen(inserted, DOMAIN inserted)

Next4 ==
    \/ \E first \in GenTokens4, switch \in Switches, last \in GenTokens4 :
          Start4(Draws(first, switch, last))
    \/ \E token \in ReqTokens4, m \in Inputs4 :
          /\ accepted4 < MaxUpdates4
          /\ Update4(token, m[1], m[2])
    \/ Sweep4
    \/ \E d \in {19, 20, Pause4} : Tick4(d)

Spec4 == Init4 /\ [][Next4]_vars

----------------------------------------------------------------------------
(* Claims about src/unnamed/part_004 *)

AllDraws4 == {Draws(first, switch, last) :
                 first \in GenTokens4, switch \in Switches, last \in GenTokens4}

\* the store once the expired sessions are deleted
live4 == Without(sessions, expired4(sessions, now))

\* C11: a successful POST /start of part_004 never replaces an existing
\* session: the returned token was not a key of the store left by the
\* preceding cleanup, and every session that survives that cleanup keeps all
\* its fields.
C11_StartNeverReplaces ==
    [][(resp'.op = "start" /\ resp'.status = 200)
       => /\ resp'.token \notin DOMAIN cleanupSessions(sessions, now)
          /\ resp'.token \in DOMAIN sessions'
          /\ \A t \in DOMAIN cleanupSessions(sessions, now) :
                t \in DOMAIN sessions' /\ sessions'[t] = sessions[t]]_vars

\* a /start has succeeded next to a session that has been updated
C11_Witness ==
    /\ server = "part_004"
    /\ resp.op = "start" /\ resp.status = 200
    /\ \E t \in DOMAIN sessions :
          t # resp.token /\ sessions[t].requestCount > 0

\* C12: POST /start of part_004 fails with the token-generation error only
\* if every one of the 50 candidate tokens collided with an existing session;
\* if any candidate, the 50th included, is unused, it succeeds.
C12_FailsOnlyIfAllCollide ==
    [][\A draws \in AllDraws4 :
          (Start4(draws) /\ resp'.status # 503)
          => LET cleaned == cleanupSessions(sessions, now)
                 allCollide == \A i \in 1..50 : draws[i] \in DOMAIN cleaned
             IN  /\ resp'.status = 500 => allCollide
                 /\ ~allCollide => resp'.status = 200]_vars

\* the last accepted update of a session
lastAccepted(token) == inserted[token][Len(inserted[token])]

\* C13: in part_004 a valid POST /update arriving less than 20 ms after the
\* previous accepted update of the session answers ok with throttled: true
\* and changes nothing; one arriving 20 ms or more after it is applied.
C13_Throttle ==
    [][\A token \in GenTokens4 \cup ProtoKeys4, m \in Inputs4 :
          ( /\ token \in DOMAIN sessions
            /\ inserted[token] # <<>>
            /\ ~isNaN(parseFloat(m[1])) /\ ~isNaN(parseFloat(m[2]))
            /\ Update4(token, m[1], m[2]) )
          => IF now - lastAccepted(token).at < 20
             THEN /\ resp'.status = 200 /\ resp'.throttled
                  /\ sessions' = sessions
             ELSE /\ resp'.status = 200 /\ ~resp'.throttled
                  /\ sessions'[token].ts = now
                  /\ sessions'[token].lastUpdate = now
                  /\ sessions'[token].requestCount = sessions[token].requestCount + 1
                  /\ m = <<"Infinity", "-10">>
                     => /\ sessions'[token].x = Int2Num(15)
                        /\ sessions'[token].y = Int2Num(-10)]_vars

\* an update has been throttled less than 20 ms after an accepted one
C13_Witness ==
    /\ server = "part_004"
    /\ resp.op = "update" /\ resp.throttled
    /\ Cardinality(DOMAIN sessions) = 1
    /\ \E t \in DOMAIN sessions :
          /\ inserted[t] # <<>>
          /\ now - lastAccepted(t).at \in 1..19
          /\ sessions[t].ts = lastAccepted(t).at

\* C14: POST /start of part_004 answers 503 exactly when the store, once the
\* expired sessions are removed, holds MAX_SESSIONS sessions or more; then no
\* session is added and no session that has not expired is removed.
C14_AtCapacity ==
    [][\A draws \in AllDraws4 :
          Start4(draws)
          => /\ resp'.status = 503 <=> Cardinality(DOMAIN live4) >= MAX_SESSIONS
             /\ resp'.status = 503 => sessions' = live4]_vars

\* C15: when cleanupSessions of part_004 runs on a store holding more than
\* MAX_SESSIONS sessions after the expired ones are removed, exactly
\* MAX_SESSIONS sessions are left and no evicted session has a ts greater
\* than a surviving one.
C15_EvictsLeastRecent ==
    [][( /\ Cardinality(DOMAIN live4) > MAX_SESSIONS
         /\ resp'.op \in {"start", "sweep"}
         /\ Sweep4 \/ \E draws \in AllDraws4 : Start4(draws) )
       => /\ Cardinality(DOMAIN sessions') = MAX_SESSIONS
          /\ DOMAIN sessions' \subseteq DOMAIN live4
          /\ \A s \in DOMAIN sessions' : sessions'[s] = sessions[s]
          /\ \A e \in DOMAIN live4 \ DOMAIN sessions', s \in DOMAIN sessions' :
                sessions[e].ts <= sessions[s].ts]_vars

\* a cleanup has evicted the least recently updated of three live sessions:
\* nothing can have expired yet, and an issued token is gone
C15_Witness ==
    /\ server = "part_004"
    /\ resp.op \in {"start", "sweep"}
    /\ now < SESSION_TIMEOUT
    /\ issued \ DOMAIN sessions # {}
    /\ Cardinality(DOMAIN sessions) = MAX_SESSIONS
    /\ \A s \in DOMAIN sessions : sessions[s].ts > 0

----------------------------------------------------------------------------
(* Claims about the bookkeeping of the first server of src/index.js *)

\* C16: in the first server each accepted /update sets ts to the request
\* time and adds exactly 1 to updateCount, a rejected one changes neither;
\* updateCount is the number of accepted updates since the session was
\* created and ts never decreases.
C16_UpdateBookkeeping ==
    [][ /\ (resp'.op = "update" /\ resp'.status = 200)
           => \E token \in DOMAIN sessions :
                 /\ Len(inserted'[token]) = Len(inserted[token]) + 1
                 /\ sessions'[token].ts = now
                 /\ sessions'[token].updateCount = sessions[token].updateCount + 1
        /\ (resp'.op = "update" /\ resp'.status # 200)
           => \A t \in DOMAIN sessions :
                 /\ t \in DOMAIN sessions'
                 /\ sessions'[t].ts = sessions[t].ts
                 /\ sessions'[t].updateCount = sessions[t].updateCount
        /\ \A t \in DOMAIN sessions \cap DOMAIN sessions' :
              sessions'[t].ts >= sessions[t].ts
        /\ \A t \in DOMAIN sessions' :
              sessions'[t].updateCount = Len(inserted'[t]) ]_vars

\* an update has been rejected after one was accepted for a session some
\* time after its creation
C16_Witness ==
    /\ server = "index1"
    /\ resp.op = "update" /\ resp.status = 400
    /\ resp.error = "Invalid motion data - must be numbers"
    /\ \E t \in DOMAIN sessions :
          /\ sessions[t].updateCount = 1
          /\ sessions[t].ts > sessions[t].created

\* C17: in the first server the created timestamp stored under a token is
\* the same after every /start, /update, read and sweep for as long as the
\* token stays in the store.
C17_CreatedNeverChanges ==
    [][\A t \in DOMAIN sessions \cap DOMAIN sessions' :
          sessions'[t].created = sessions[t].created]_vars

----------------------------------------------------------------------------
(* First server of src/unnamed/part_005: no smoothing, /x deletes when stale *)

ReadTTL5 == 60000
SweepTTL5 == 120000

\* tokens of nanoid(8) and the tokens a client may send
GenTokens5 == {"22222222"}
ReqTokens5 == GenTokens5 \cup ProtoKeys \cup {"99999999"}
Inputs5 == {<<"4", "0">>, <<"abc", "-10">>}

\* POST /start: sessions[token] = { x: 0, y: 0, ts: Date.now() }
Start5(token) ==
    /\ server = "part_005"
    /\ sessions' = Assign(sessions, token, [x |-> Int2Num(0), y |-> Int2Num(0), ts |-> now])
    /\ issued' = issued \cup {token}
    /\ resp' = Reply("start", 200, "", <<>>)
    /\ UNCHANGED <<server, sessionStats, now, sweepDue, inserted>>

\* POST /update: a truthy sessions[token] is replaced by a new object
Update5(token, x, y) ==
    /\ server = "part_005"
    /\ IF Truthy(token)
       THEN /\ sessions' = Assign(sessions, token,
                              [x |-> parseFloatOr0(x), y |-> parseFloatOr0(y), ts |-> now])
            /\ resp' = Reply("update", 200, "", <<>>)
       ELSE /\ resp' = Reply("update", 400, "Invalid token", <<>>)
            /\ UNCHANGED sessions
    /\ UNCHANGED <<server, sessionStats, now, sweepDue, issued, inserted>>

\* /x: age >= 60000
isStaleX5(token) == NumGe(Age(token), Int2Num(ReadTTL5))

\* /y: not (age < 60000)
isStaleY5(token) == ~NumLt(Age(token), Int2Num(ReadTTL5))

\* Math.max(-5, Math.min(5, Math.round(v * 0.5)))
movement5(v) ==
    MathMax(Int2Num(-5), MathMin(Int2Num(5), MathRound(NumScale(v, 1, 2))))

\* GET /x/:token: a stale session is deleted
ReadX5(token) ==
    /\ server = "part_005"
    /\ IF ~Truthy(token)
       THEN resp' = Reply("x", 200, "", Zero) /\ UNCHANGED sessions
       ELSE IF isStaleX5(token)
       THEN /\ resp' = Reply("x", 200, "", Zero)
            /\ sessions' = Without(sessions, {token})
       ELSE /\ resp' = Reply("x", 200, "", NumToString(movement5(FieldX(token))))
            /\ UNCHANGED sessions
    /\ UNCHANGED <<server, sessionStats, now, sweepDue, issued, inserted>>

\* GET /y/:token
ReadY5(token) ==
    /\ server = "part_005"
    /\ resp' = Reply("y", 200, "",
                     IF Truthy(token) /\ ~isStaleY5(token)
                     THEN NumToString(movement5(FieldY(token)))
                     ELSE Zero)
    /\ UNCHANGED <<server, sessions, sessionStats, now, sweepDue, issued, inserted>>

\* the setInterval callback
Sweep5 ==
    /\ server = "part_005"
    /\ now >= sweepDue
    /\ sessions' = Without(sessions, {t \in DOMAIN sessions : now - sessions[t].ts > SweepTTL5})
    /\ sweepDue' = now + SweepTTL5
    /\ resp' = Reply("sweep", 0, "", <<>>)
    /\ UNCHANGED <<server, sessionStats, now, issued, inserted>>

\* The first server of src/index.js and the first server of part_005: reads
InitReads == \E name \in {"index1", "part_005"} : InitServer(name)

NextReads ==
    \/ Next
    \/ \E token \in GenTokens5 : Start5(token)
    \/ \E token \in ReqTokens5, m \in Inputs5 : Update5(token, m[1], m[2])
    \/ \E token \in ReqTokens5 : ReadX5(token)
    \/ \E token \in ReqTokens5 : ReadY5(token)
    \/ Sweep5

SpecReads == InitReads /\ [][NextReads]_vars

\* C18: within one server every read endpoint applies the same staleness
\* comparison: for every session and every instant, age exactly 60000 ms
\* included, all of them take the computed branch or all take the sentinel.
C18_SameStalenessTest ==
    \A t \in DOMAIN sessions :
        IF server = "index1"
        THEN /\ isStale(t) <=> isStaleY(t)
             /\ isStale(t) <=> isStaleSimple(t)
        ELSE isStaleX5(t) <=> isStaleY5(t)

\* a session is read at the age of exactly 60000 ms
C18_Witness ==
    /\ resp.op \in {"x", "y", "simple"}
    /\ \E t \in DOMAIN sessions : now - sessions[t].ts = 60000

----------------------------------------------------------------------------
(* src/unnamed/part_000: the first server of index.js with a wider range *)

SanityBound0 == 25
MapRange0 == 20
MaxUpdates0 == 3

Inputs0 == {<<"30", "Infinity">>, <<"30", "-Infinity">>, <<"-30", "4">>, <<"abc", "0">>}

\* POST /start and POST /update: the code of the first server of index.js
Start0(token) ==
    /\ server = "part_000"
    /\ sessions' = Assign(sessions, token, newSession)
    /\ sessionStats' = [sessionStats EXCEPT
                          !.totalCreated = @ + 1,
                          !.currentActive = Cardinality(DOMAIN sessions')]
    /\ issued' = issued \cup {token}
    /\ inserted' = [inserted EXCEPT ![token] = <<>>]
    /\ resp' = Reply("start", 200, "", <<>>)
    /\ UNCHANGED <<server, now, sweepDue>>

Update0(token, x, y) ==
    /\ server = "part_000"
    /\ LET newX == parseFloat(x)
           newY == parseFloat(y)
       IN  IF token = ""
           THEN Rejected("update", 400, "Missing token")
           ELSE IF ~Truthy(token)
           THEN Rejected("update", 400, "Invalid or expired token")
           ELSE IF isNaN(newX) \/ isNaN(newY)
           THEN Rejected("update", 400, "Invalid motion data - must be numbers")
           ELSE IF Inherited(token)
           THEN Rejected("update", 500, "Update failed")
           ELSE applyUpdate(token, newX, newY)
    /\ UNCHANGED <<server, now, sweepDue, issued>>

\* Math.abs(validX) > 25 || Math.abs(validY) > 25
extreme0(x, y) ==
    \/ NumGt(MathAbs(x), Int2Num(SanityBound0))
    \/ NumGt(MathAbs(y), Int2Num(SanityBound0))

\* Math.max(-25, Math.min(25, v))
clamp0(v) == MathMax(Int2Num(0 - SanityBound0), MathMin(Int2Num(SanityBound0), v))

\* valid0 resetting an extreme reading to the center: a wrong variant that
\* C19 must reject
valid0Centered(token, axis) ==
    IF extreme0(FieldX(token), FieldY(token)) THEN Int2Num(0)
    ELSE IF axis = "x" THEN FieldX(token) ELSE FieldY(token)

\* validX, validY: both axes are clamped when either is extreme
valid0(token, axis) ==
    LET v == IF axis = "x" THEN FieldX(token) ELSE FieldY(token)
    IN  IF extreme0(FieldX(token), FieldY(token)) THEN clamp0(v) ELSE v

\* mapToScale: Math.round(((clamped / 20 + 1) / 2) * 8) + 1, within 1..9
mapToScale0(velocity) ==
    LET clamped == MathMax(Int2Num(0 - MapRange0), MathMin(Int2Num(MapRange0), velocity))
        linear == NumScale(clamped, 1, MapRange0)
        scaled == NumAdd(MathRound(NumScale(NumAdd(linear, Int2Num(1)), 8, 2)), Int2Num(1))
    IN  MathMax(Int2Num(1), MathMin(Int2Num(9), scaled))

\* body of GET /simple/:token
simpleBody0(token) ==
    IF ~Truthy(token) THEN X05Y05
    ELSE IF NumGt(Age(token), Int2Num(ReadTTL)) THEN X05Y05
    \* session.health is undefined: the assignment throws, the catch answers
    ELSE IF Inherited(token) THEN X05Y05
    ELSE formatXY(mapToScale0(valid0(token, "x")), mapToScale0(valid0(token, "y")))

ReadSimple0(token) ==
    /\ server = "part_000"
    /\ resp' = Reply("simple", 200, "", simpleBody0(token))
    /\ UNCHANGED <<server, sessions, sessionStats, now, sweepDue, issued, inserted>>

\* the setInterval callback
Sweep0 ==
    /\ server = "part_000"
    /\ now >= sweepDue
    /\ sessions' = Without(sessions, {t \in DOMAIN sessions : now - sessions[t].ts > SweepTTL})
    /\ sessionStats' = [sessionStats EXCEPT !.currentActive = Cardinality(DOMAIN sessions')]
    /\ sweepDue' = now + SweepInterval
    /\ resp' = Reply("sweep", 0, "", <<>>)
    /\ UNCHANGED <<server, now, issued, inserted>>

Init0 == InitServer("part_000")

Next0 ==
    \/ \E token \in SmoothTokens :
          sessionStats.totalCreated < MaxCreated /\ Start0(token)
    \/ \E token \in SmoothReqTokens, m \in Inputs0 :
          sessionStats.totalUpdates < MaxUpdates0 /\ Update0(token, m[1], m[2])
    \/ \E token \in SmoothReqTokens : ReadSimple0(token)
    \/ Sweep0
    \/ \E d \in TickSteps : Tick(d)

Spec0 == Init0 /\ [][Next0]_vars

\* the session is stored and /simple does not take it for stale
fresh0(t) == t \in DOMAIN sessions /\ now - sessions[t].ts <= 60000

\* C19, as stated: in part_000, whenever the stored |x| or |y| of a fresh
\* session exceeds 25, /simple answers X05Y05.
C19_ExtremeIsCentered ==
    \A t \in DOMAIN sessions :
        ( /\ fresh0(t)
          /\ isFinite(sessions[t].x) /\ isFinite(sessions[t].y)
          /\ \/ NumGt(MathAbs(sessions[t].x), Int2Num(25))
             \/ NumGt(MathAbs(sessions[t].y), Int2Num(25)) )
        => simpleBody0(t) = X05Y05

\* the two characters /simple answers for an axis
axisText(body, axis) == IF axis = "x" THEN SubSeq(body, 2, 3) ELSE SubSeq(body, Len(body) - 1, Len(body))

\* C19 amended: in part_000, for a fresh session and either axis, a stored
\* value above 25 reads as scale 09 and a stored value below -25 as scale 01:
\* the reading is clamped, not centered.
C19_ExtremeIsClamped ==
    \A t \in DOMAIN sessions : \A axis \in {"x", "y"} :
        fresh0(t)
        => /\ NumGt(sessions[t][axis], Int2Num(25))
              => axisText(simpleBody0(t), axis) = <<"0", "9">>
           /\ NumLt(sessions[t][axis], Int2Num(0 - 25))
              => axisText(simpleBody0(t), axis) = <<"0", "1">>

\* /simple has answered X01Y06 for a fresh session holding x = -30, y = 4
C19_Witness ==
    /\ server = "part_000"
    /\ resp.op = "simple"
    /\ resp.body = <<"X", "0", "1", "Y", "0", "6">>
    /\ \E t \in DOMAIN sessions :
          fresh0(t) /\ sessions[t].x = Int2Num(0 - 30) /\ sessions[t].y = Int2Num(4)

----------------------------------------------------------------------------
(* src/unnamed/part_003: no smoothing, linear mapping over -10..10 *)

ReadTTL3 == 180000
SweepTTL3 == 120000
SweepInterval3 == 30000
SanityBound3 == 15
MapRange3 == 10
MaxClock3 == 150002
MaxUpdates3 == 3

Inputs3 == {<<"10", "-10">>, <<"4", "0">>, <<"abc", "Infinity">>}
TickSteps3 == {30000, 30001}

\* POST /start: no collision check; the session is created zeroed.
\* inserted[token] holds the last update a created session has accepted.
Start3(token) ==
    /\ server = "part_003"
    /\ sessions' = Assign(sessions, token, [x |-> Int2Num(0), y |-> Int2Num(0), ts |-> now])
    /\ issued' = issued \cup {token}
    /\ inserted' = [inserted EXCEPT ![token] = <<>>]
    /\ resp' = Reply("start", 200, "", <<>>)
    /\ UNCHANGED <<server, sessionStats, now, sweepDue>>

\* POST /update: !token || !sessions[token] is the only validation; an
\* inherited key passes it and the assignment makes it a session
Update3(token, x, y) ==
    /\ server = "part_003"
    /\ IF token = "" \/ ~Truthy(token)
       THEN Rejected("update", 400, "Invalid token")
       ELSE LET newX == parseFloatOr0(x)
                newY == parseFloatOr0(y)
            IN  /\ sessions' = Assign(sessions, token, [x |-> newX, y |-> newY, ts |-> now])
                /\ sessionStats' = [sessionStats EXCEPT !.totalUpdates = @ + 1]
                /\ inserted' = IF token \in DOMAIN inserted
                               THEN [inserted EXCEPT
                                       ![token] = << [x |-> newX, y |-> newY, at |-> now] >>]
                               ELSE inserted
                /\ resp' = Reply("update", 200, "", <<>>)
    /\ UNCHANGED <<server, now, sweepDue, issued>>

\* Math.abs(validX) > 15 || Math.abs(validY) > 15
extreme3(x, y) ==
    \/ NumGt(MathAbs(x), Int2Num(SanityBound3))
    \/ NumGt(MathAbs(y), Int2Num(SanityBound3))

\* mapToScale: Math.round(((clamped / 10 + 1) / 2) * 8) + 1, within 1..9
mapToScale3(velocity) ==
    LET clamped == MathMax(Int2Num(0 - MapRange3), MathMin(Int2Num(MapRange3), velocity))
        normalized == NumScale(clamped, 1, MapRange3)
        scaled == NumAdd(MathRound(NumScale(NumAdd(normalized, Int2Num(1)), 8, 2)), Int2Num(1))
    IN  MathMax(Int2Num(1), MathMin(Int2Num(9), scaled))

\* validX, validY: both axes are reset to the center when either is extreme
valid3(token, axis) ==
    IF extreme3(sessions[token].x, sessions[token].y) THEN Int2Num(0)
    ELSE sessions[token][axis]

\* body of GET /simple/:token
simpleBody3(token) ==
    IF ~Truthy(token) THEN X05Y05
    \* validX.toFixed of an inherited property throws; the catch answers
    ELSE IF Inherited(token) THEN X05Y05
    ELSE IF now - sessions[token].ts > ReadTTL3 THEN X05Y05
    ELSE formatXY(mapToScale3(valid3(token, "x")), mapToScale3(valid3(token, "y")))

ReadSimple3(token) ==
    /\ server = "part_003"
    /\ resp' = Reply("simple", 200, "", simpleBody3(token))
    /\ UNCHANGED <<server, sessions, sessionStats, now, sweepDue, issued, inserted>>

\* the setInterval callback, every 30 seconds
Sweep3 ==
    /\ server = "part_003"
    /\ now >= sweepDue
    /\ sessions' = Without(sessions, {t \in DOMAIN sessions : now - sessions[t].ts > SweepTTL3})
    /\ sweepDue' = now + SweepInterval3
    /\ resp' = Reply("sweep", 0, "", <<>>)
    /\ UNCHANGED <<server, sessionStats, now, issued, inserted>>

\* time passes; a due timer callback runs before more time passes
Tick3(d) ==
    /\ server = "part_003"
    /\ now < sweepDue
    /\ now + d <= MaxClock3
    /\ now' = now + d
    /\ resp' = Reply("tick", 0, "", <<>>)
    /\ UNCHANGED <<server, sessions, sessionStats, sweepDue, issued, inserted>>

Init3 ==
    /\ server = "part_003"
    /\ sessions = <<>>
    /\ sessionStats = [totalCreated |-> 0, totalUpdates |-> 0, currentActive |-> 0]
    /\ now = 0
    /\ sweepDue = SweepInterval3
    /\ issued = {}
    /\ inserted = [t \in GenTokens |-> <<>>]
    /\ resp = Reply("init", 0, "", <<>>)

Next3 ==
    \/ \E token \in SmoothTokens : Start3(token)
    \/ \E token \in SmoothReqTokens \cup {""}, m \in Inputs3 :
          sessionStats.totalUpdates < MaxUpdates3 /\ Update3(token, m[1], m[2])
    \/ \E token \in SmoothReqTokens : ReadSimple3(token)
    \/ Sweep3
    \/ \E d \in TickSteps3 : Tick3(d)

Spec3 == Init3 /\ [][Next3]_vars

X09Y01 == <<"X", "0", "9", "Y", "0", "1">>

\* the last update of the created session t carried x = 10, y = -10
updatedTenMinusTen(t) ==
    /\ t \in issued
    /\ inserted[t] # <<>>
    /\ inserted[t][1].x = Int2Num(10)
    /\ inserted[t][1].y = Int2Num(0 - 10)

\* C20: in part_003, after creating a session and updating it with x = 10,
\* y = -10, every read of /simple within the read TTL of 180000 ms after that
\* update answers X09Y01.
C20_ScenarioReadsX09Y01 ==
    [][\A t \in SmoothTokens :
          ( /\ ReadSimple3(t)
            /\ updatedTenMinusTen(t)
            /\ now - inserted[t][1].at <= ReadTTL3 )
          => resp'.body = X09Y01]_vars

----------------------------------------------------------------------------
(* The servers whose /simple pads to two digits: index.js (first server),
   part_000 and part_003 *)

InitPadded == Init \/ Init0 \/ Init3

NextPadded == Next \/ Next0 \/ Next3

SpecPadded == InitPadded /\ [][NextPadded]_vars

\* what GET /simple/:token of the running server answers in this state
simpleAnswer(token) ==
    CASE server = "part_000" -> simpleBody0(token)
      [] server = "part_003" -> simpleBody3(token)
      [] OTHER -> simpleBody(token)

\* the session created last under token t has accepted no update
neverUpdated(t) == t \in issued /\ inserted[t] = <<>>

\* C21: in the servers whose /simple pads to two digits, a session that has
\* been created and not yet updated reads as X05Y05 on /simple, at any time.
C21_ZeroStateReadsCenter ==
    /\ \A t \in issued : neverUpdated(t) => simpleAnswer(t) = X05Y05
    /\ resp.op = "start" => \A t \in DOMAIN inserted :
          (t \in DOMAIN sessions /\ sessions[t].ts = now /\ neverUpdated(t))
          => /\ sessions[t].x = Int2Num(0) /\ sessions[t].y = Int2Num(0)

\* /simple has answered for a stored, fresh and never updated session while
\* another session of the store has been updated
C21_Witness ==
    /\ server = "index1"
    /\ resp.op = "simple" /\ resp.body = X05Y05
    /\ \E t \in DOMAIN sessions :
          /\ neverUpdated(t) /\ now - sessions[t].ts <= ReadTTL
          /\ \A u \in DOMAIN sessions \ {t} : inserted[u] # <<>>
          /\ DOMAIN sessions # {t}

----------------------------------------------------------------------------
(* src/unnamed/part_002: /connect, /update, /latest; no smoothing, no sweep *)

LatestTTL == 30000
MaxClockP2 == 60000
MaxUpdatesP2 == 2

\* x and y of an /update body, as the JSON number texts the client sends
Chars4 == <<"4">>
CharsMinus10 == <<"-", "1", "0">>
Chars1e400 == <<"1", "e", "4", "0", "0">>
InputsP2 == {<<Chars4, Zero>>, <<CharsMinus10, Chars4>>, <<Chars1e400, Zero>>}
TickStepsP2 == {LatestTTL - 1, LatestTTL}

\* JSON.parse of a number text (express.json): a double; a magnitude beyond
\* the range of a double is Infinity
JSONparse(text) ==
    CASE text = Chars4 -> Int2Num(4)
      [] text = Zero -> Int2Num(0)
      [] text = CharsMinus10 -> Int2Num(0 - 10)
      [] text = Chars1e400 -> PosInf

\* JSON.stringify of a number (res.json): the infinities and NaN become null
JSONstringify(a) ==
    IF a.k = "fin" THEN NumToString(a) ELSE <<"n", "u", "l", "l">>

\* POST /connect: nanoid(8), no collision check
ConnectP2(token) ==
    /\ server = "part_002"
    /\ sessions' = Assign(sessions, token, [x |-> Int2Num(0), y |-> Int2Num(0), ts |-> now])
    /\ issued' = issued \cup {token}
    /\ inserted' = [inserted EXCEPT ![token] = <<>>]
    /\ resp' = Reply("connect", 200, "", <<>>)
    /\ UNCHANGED <<server, sessionStats, now, sweepDue>>

\* POST /update: sessions[token] truthy is the only check; x and y are stored
\* as parsed. inserted[token] logs the texts of the accepted updates.
UpdateP2(token, x, y) ==
    /\ server = "part_002"
    /\ IF Truthy(token)
       THEN /\ sessions' = Assign(sessions, token,
                                  [x |-> JSONparse(x), y |-> JSONparse(y), ts |-> now])
            /\ inserted' = IF token \in DOMAIN inserted
                           THEN [inserted EXCEPT ![token] = Append(@, [x |-> x, y |-> y])]
                           ELSE inserted
            /\ resp' = Reply("update", 200, "", <<>>)
       ELSE /\ resp' = Reply("update", 400, "Invalid token", <<>>)
            /\ UNCHANGED <<sessions, inserted>>
    /\ UNCHANGED <<server, sessionStats, now, sweepDue, issued>>

\* the reply of GET /latest/:token: s && Date.now() - s.ts < 30000
latestReply(token) ==
    IF HasOwn(token) /\ now - sessions[token].ts < LatestTTL
    THEN Reply("latest", 200, "", [x |-> JSONstringify(sessions[token].x),
                                   y |-> JSONstringify(sessions[token].y)])
    ELSE Reply("latest", 404, "Session expired or not found", <<>>)

LatestP2(token) ==
    /\ server = "part_002"
    /\ resp' = latestReply(token)
    /\ UNCHANGED <<server, sessions, sessionStats, now, sweepDue, issued, inserted>>

TickP2(d) ==
    /\ server = "part_002"
    /\ now + d <= MaxClockP2
    /\ now' = now + d
    /\ resp' = Reply("tick", 0, "", <<>>)
    /\ UNCHANGED <<server, sessions, sessionStats, sweepDue, issued, inserted>>

InitP2 == InitServer("part_002")

NextP2 ==
    \/ \E token \in GenTokens5 : ConnectP2(token)
    \/ \E token \in ReqTokens5, m \in InputsP2 :
          /\ \A t \in DOMAIN inserted : Len(inserted[t]) < MaxUpdatesP2
          /\ UpdateP2(token, m[1], m[2])
    \/ \E token \in ReqTokens5 : LatestP2(token)
    \/ \E d \in TickStepsP2 : TickP2(d)

SpecP2 == InitP2 /\ [][NextP2]_vars

\* the x and y given in the most recent accepted update of the session
\* created under t, 0 and 0 if there is none
given(t) ==
    IF inserted[t] = <<>> THEN [x |-> Zero, y |-> Zero]
    ELSE inserted[t][Len(inserted[t])]

\* C22: in part_002, GET /latest/:token answers the x and y given in the most
\* recent accepted update (0, 0 if none) when the session exists and its age
\* is below 30000 ms, and 404 when it is absent or its age is 30000 or more.
C22_LatestReturnsGiven ==
    \A t \in ReqTokens5 :
        IF HasOwn(t) /\ now - sessions[t].ts < 30000
        THEN /\ latestReply(t).status = 200
             /\ t \in DOMAIN inserted => latestReply(t).body = given(t)
        ELSE latestReply(t).status = 404

----------------------------------------------------------------------------
(* Claims about the read endpoints *)

\* C23: a read endpoint (/x, /y, /simple) removes no session and changes no
\* session's x, y or ts; tokens leave the store only through the periodic
\* sweep.
C23_ReadsLeaveStore ==
    [][ /\ resp'.op \in {"x", "y", "simple"}
           => \A t \in DOMAIN sessions :
                 /\ t \in DOMAIN sessions'
                 /\ sessions'[t].x = sessions[t].x
                 /\ sessions'[t].y = sessions[t].y
                 /\ sessions'[t].ts = sessions[t].ts
        /\ DOMAIN sessions \ DOMAIN sessions' # {} => resp'.op = "sweep" ]_vars

\* the reads of the first server take the stored session t for stale
deadForReads(t) == isStale(t) /\ isStaleY(t) /\ isStaleSimple(t)

\* C24: in the first server a session whose age has exceeded 60000 ms stays
\* dead for reads whatever operation follows: after every step the session is
\* gone, replaced by a newly created one, or still taken for stale.
C24_DeadStaysDead ==
    [][\A t \in DOMAIN sessions :
          (deadForReads(t) /\ t \in DOMAIN sessions'
             /\ sessions'[t].created = sessions[t].created)
          => now' - sessions'[t].ts > 60000]_vars

----------------------------------------------------------------------------
(* The first server of src/index.js with a punctual sweep timer *)

MaxClockT == 360000

\* time passes up to the next run of the timer, never beyond it
TickT(d) ==
    /\ d > 0
    /\ now + d <= sweepDue
    /\ now + d <= MaxClockT
    /\ now' = now + d
    /\ resp' = Reply("tick", 0, "", <<>>)
    /\ UNCHANGED <<server, sessions, sessionStats, sweepDue, issued, inserted>>

\* requests arrive only as long as two more timer periods fit in the run
NextTimer ==
    \/ \E token \in GenTokens :
          /\ sessionStats.totalCreated < MaxCreated
          /\ now + 2 * SweepInterval <= MaxClockT
          /\ Start(token)
    \/ \E token \in ReqTokens, m \in LifecycleInputs :
          /\ sessionStats.totalUpdates < MaxLifeUpdates
          /\ now + 2 * SweepInterval <= MaxClockT
          /\ Update(token, m[1], m[2])
    \/ \E token \in GenTokens : ReadSimple(token)
    \/ Sweep
    \/ \E d \in TickSteps \cup {sweepDue - now} : TickT(d)

\* the timer runs when it is due and time goes on, whatever requests come
SpecTimer ==
    /\ Init
    /\ [][NextTimer]_vars
    /\ WF_vars(Sweep)
    /\ WF_vars(\E d \in TickSteps \cup {sweepDue - now} : TickT(d))

\* C25: in the first server, with the sweep timer firing every 120000 ms, a
\* session that gets no further accepted update is eventually removed, and no
\* session is in the store later than 240000 ms after its last update,
\* whether or not any request is made.
C25_EventuallySwept ==
    /\ [](\A t \in DOMAIN sessions : now - sessions[t].ts <= 240000)
    /\ \A t \in GenTokens : \A u \in {0, SweepInterval} \cup TickSteps :
          (HasOwn(t) /\ sessions[t].ts = u) ~> ~(HasOwn(t) /\ sessions[t].ts = u)

\* the timer has run once and is due again, and a session last updated
\* 240000 ms ago is still in the store
C25_Witness ==
    /\ server = "index1"
    /\ now = sweepDue
    /\ \E t \in DOMAIN sessions :
          /\ now - sessions[t].ts = 2 * SweepInterval
          /\ sessions[t].updateCount > 0

----------------------------------------------------------------------------
(* The first server of src/index.js with one phone sending many samples *)

MaxRepeat == 7

NextRepeat ==
    \/ \E token \in SmoothTokens :
          sessionStats.totalCreated < MaxCreated /\ Start(token)
    \/ \E token \in SmoothReqTokens, m \in SmoothInputs :
          sessionStats.totalUpdates < MaxRepeat /\ Update(token, m[1], m[2])

SpecRepeat == Init /\ [][NextRepeat]_vars

\* this step is an accepted update of t with the sample that the k accepted
\* updates before it carried as well
repeats(t, k) ==
    /\ t \in DOMAIN sessions /\ t \in DOMAIN sessions'
    /\ Len(inserted'[t]) = Len(inserted[t]) + 1
    /\ Len(inserted[t]) >= k
    /\ \A i \in (Len(inserted[t]) - k + 1)..Len(inserted[t]) :
          inserted[t][i] = inserted'[t][Len(inserted'[t])]

----------------------------------------------------------------------------
(* Claims about the filtered values of the first server of src/index.js *)

\* the sum of the samples of h on an axis
RECURSIVE sumOf(_, _)
sumOf(h, axis) ==
    IF h = <<>> THEN Int2Num(0) ELSE NumAdd(h[1][axis], sumOf(Tail(h), axis))

\* the arithmetic mean of the samples of a non-empty h on an axis
meanOf(h, axis) == NumScale(sumOf(h, axis), 1, Len(h))

\* C27: in the first server, in every reachable state the stored x and y of a
\* session are the arithmetic mean of the samples of its history, and 0, 0
\* when the history is empty.
C27_FilteredIsMeanOfHistory ==
    server = "index1"
    => \A t \in DOMAIN sessions :
          LET h == sessions[t].history
          IN  IF h = <<>>
              THEN sessions[t].x = Int2Num(0) /\ sessions[t].y = Int2Num(0)
              ELSE /\ sessions[t].x = meanOf(h, "x")
                   /\ sessions[t].y = meanOf(h, "y")

\* a read has been answered for a session whose window has dropped a sample
\* and whose mean differs from its newest sample
C27_Witness ==
    /\ server = "index1"
    /\ resp.op \in {"x", "y", "simple"}
    /\ \E t \in DOMAIN sessions :
          /\ sessions[t].updateCount > Window
          /\ Len(sessions[t].history) = Window
          /\ sessions[t].x # sessions[t].history[Window].x

----------------------------------------------------------------------------
(* Claims about the outlier filter of the second server of src/index.js *)

\* 0.6 * reference + 0.4 * raw when raw is more than 5 away from the
\* reference, raw otherwise
guarded(reference, raw) ==
    IF NumGt(MathAbs(NumSub(raw, reference)), Int2Num(5))
    THEN NumAdd(NumScale(reference, 6, 10), NumScale(raw, 4, 10))
    ELSE raw

\* the sample the step has appended to the history of t
appended(t) == sessions'[t].history[Len(sessions'[t].history)]

\* C28, as stated: in the second server the reference of the outlier guard is
\* the session's most recent filtered value, the smoothed x and y that the
\* session stores.
C28_GuardAgainstFiltered ==
    [][\A t \in SmoothTokens, m \in SmoothInputs2 :
          ( /\ server = "index2" /\ resp'.op = "update" /\ resp'.status = 200
            /\ HasOwn(t) /\ sessions[t].history # <<>>
            /\ Update2(t, m[1], m[2]) )
          => /\ appended(t).x = guarded(sessions[t].x, parseFloatOr0(m[1]))
             /\ appended(t).y = guarded(sessions[t].y, parseFloatOr0(m[2]))]_vars

\* C28 amended: in the second server the reference of the outlier guard is
\* the sample last appended to the session's history: a raw sample more than
\* 5 away from it on an axis is appended as 0.6 * that sample + 0.4 * raw,
\* any other raw sample, and the first of a session, is appended unchanged.
C28_GuardAgainstLastSample ==
    [][\A t \in SmoothTokens, m \in SmoothInputs2 :
          ( /\ server = "index2" /\ resp'.op = "update" /\ resp'.status = 200
            /\ HasOwn(t)
            /\ Update2(t, m[1], m[2]) )
          => LET h == sessions[t].history
                 rawX == parseFloatOr0(m[1])
                 rawY == parseFloatOr0(m[2])
             IN  IF h = <<>>
                 THEN appended(t).x = rawX /\ appended(t).y = rawY
                 ELSE /\ appended(t).x = guarded(h[Len(h)].x, rawX)
                      /\ appended(t).y = guarded(h[Len(h)].y, rawY)]_vars

\* after 8 and a blended 4.8 the raw sample 0 has been appended unchanged,
\* although the smoothed x was more than 5 away from it
C28_Witness ==
    /\ server = "index2"
    /\ resp.op = "update" /\ resp.status = 200
    /\ \E t \in DOMAIN sessions :
          LET h == sessions[t].history
          IN  /\ Len(h) = 3
              /\ h[1].x = Int2Num(8) /\ h[2].x = Fin(24, 5) /\ h[3].x = Int2Num(0)

----------------------------------------------------------------------------
(* The first sample of a session *)

\* a session /start has stored and no update has reached yet
freshlyCreated(t) == HasOwn(t) /\ sessions[t].history = <<>>

\* C29: in the first and in the second server of src/index.js, the first
\* accepted update of a freshly created session stores the raw sample the
\* server read from the body (parseFloat(x), and 0 for a text that is no
\* number in the second server) as the filtered x and y, unchanged.
C29_FirstSampleIsRaw ==
    [][\A t \in SmoothTokens :
          (resp'.op = "update" /\ resp'.status = 200 /\ freshlyCreated(t))
          => /\ \A m \in SmoothInputs :
                   Update(t, m[1], m[2])
                   => /\ sessions'[t].x = parseFloat(m[1])
                      /\ sessions'[t].y = parseFloat(m[2])
             /\ \A m \in SmoothInputs2 :
                   Update2(t, m[1], m[2])
                   => /\ sessions'[t].x = parseFloatOr0(m[1])
                      /\ sessions'[t].y = parseFloatOr0(m[2])]_vars

\* a first sample has been accepted: 10 and Infinity in the first server,
\* 8 and -8, more than the outlier threshold away from 0, in the second
C29_Witness ==
    /\ resp.op = "update" /\ resp.status = 200
    /\ \E t \in SmoothTokens :
          /\ HasOwn(t) /\ Len(sessions[t].history) = 1
          /\ \/ server = "index1" /\ sessions[t].x = Int2Num(10) /\ sessions[t].y = PosInf
             \/ server = "index2" /\ sessions[t].x = Int2Num(8) /\ sessions[t].y = Int2Num(-8)

----------------------------------------------------------------------------
(* Second server of src/index.js: GET /batch/:token/:count *)

\* the :count segments a client sends, and the tokens: the phone's, a name
\* inherited from Object.prototype and a well-formed token never issued
BatchCounts == {1, 2, 3, 10}
BatchTokens == SmoothReqTokens \cup {"99999999"}

\* Math.random(): the least value and one close to 1; one request draws the
\* values of a pair in turn, for x and for y
RandomValues == {Fin(0, 1), Fin(99, 100)}
BatchDraws == [1..2 -> RandomValues]

\* Math.min(parseInt(req.params.count) || 5, 10)
batchCount(count) ==
    LET asked == IF count = 0 THEN 5 ELSE count
    IN  IF asked < 10 THEN asked ELSE 10

\* 'X05Y05,'.repeat(count).slice(0, -1)
RECURSIVE repeatCenter(_)
repeatCenter(n) == IF n = 0 THEN <<>> ELSE repeatCenter(n - 1) \o X05Y05 \o <<",">>

centerBatch(count) ==
    LET text == repeatCenter(count)
    IN  IF text = <<>> THEN text ELSE SubSeq(text, 1, Len(text) - 1)

\* i / (count - 1): 0 / 0 is NaN
interpolationFactor(i, count) == IF count = 1 THEN NaN ELSE Fin(i, count - 1)

\* (Math.random() - 0.5) * 0.3
variation(random) == NumScale(NumSub(random, Fin(1, 2)), 3, 10)

\* base + (variation * interpolationFactor), the base being finite or NaN
\* or an infinity and the variation finite
interpolated(base, random, factor) ==
    IF isNaN(factor) THEN NaN
    ELSE LET v == variation(random)
         IN  NumAdd(base, Fin(v.n * factor.n, v.d * factor.d))

\* the position pushed in round i of the loop (i = 0 .. count - 1)
position(token, i, count, dx, dy) ==
    LET factor == interpolationFactor(i, count)
        xs == scale2(interpolated(FieldX(token), dx[(i % 2) + 1], factor))
        ys == scale2(interpolated(FieldY(token), dy[(i % 2) + 1], factor))
    IN  <<"X">> \o PadStart2(NumToString(xs)) \o <<"Y">> \o PadStart2(NumToString(ys))

\* positions.join(',') of the first n positions
RECURSIVE joinPositions(_, _, _, _, _)
joinPositions(token, n, count, dx, dy) ==
    IF n = 0 THEN <<>>
    ELSE IF n = 1 THEN position(token, 0, count, dx, dy)
    ELSE joinPositions(token, n - 1, count, dx, dy) \o <<",">>
         \o position(token, n - 1, count, dx, dy)

\* body of GET /batch/:token/:count
batchBody(token, asked, dx, dy) ==
    LET count == batchCount(asked)
    IN  IF ~Truthy(token) \/ isStale(token) THEN centerBatch(count)
        ELSE joinPositions(token, count, count, dx, dy)

\* GET /batch/:token/:count: always status 200; the reply is kept with the
\* count that was asked for
Batch(token, asked) ==
    /\ server = "index2"
    /\ \E dx \in BatchDraws, dy \in BatchDraws :
          resp' = [op |-> "batch", status |-> 200, error |-> "",
                   body |-> batchBody(token, asked, dx, dy),
                   token |-> token, count |-> asked]
    /\ UNCHANGED <<server, sessions, sessionStats, now, sweepDue, issued, inserted>>

\* The second server of src/index.js with one phone and a client of /batch
InitBatch == InitServer("index2")

NextBatch ==
    \/ \E token \in SmoothTokens : Start2(token)
    \/ \E token \in SmoothReqTokens, m \in SmoothInputs2 :
          /\ \A t \in DOMAIN sessions : Len(inserted[t]) < MaxLifeUpdates
          /\ Update2(token, m[1], m[2])
    \/ \E token \in BatchTokens, asked \in BatchCounts : Batch(token, asked)
    \/ Sweep2
    \/ \E d \in TickSteps : Tick(d)

SpecBatch == InitBatch /\ [][NextBatch]_vars

\* the text is n positions X dd Y dd with both scales in 1..9, separated by
\* commas
isPosition(text) ==
    /\ IsScaleText(text)
    /\ text[2] = "0" /\ text[3] # "0"
    /\ text[5] = "0" /\ text[6] # "0"

isBatchOf(text, n) ==
    /\ Len(text) = 7 * n - 1
    /\ \A k \in 0..(n - 1) : isPosition(SubSeq(text, 7 * k + 1, 7 * k + 6))
    /\ \A k \in 1..(n - 1) : text[7 * k] = ","

\* C30: in the second server of src/index.js, the reply of
\* GET /batch/:token/:count to a count from 1 to 10 is exactly count
\* positions separated by commas, each X, two digits, Y, two digits with
\* both scales in 1..9, whether the token is fresh, stale or absent.
C30_BatchIsCountPositions ==
    (resp.op = "batch" /\ resp.count \in 1..10)
    => isBatchOf(resp.body, resp.count)

----------------------------------------------------------------------------
(* src/unnamed/part_003: GET /batch/:token/:count *)

\* updates of the batch runs: those of the /simple runs and a finite sample
\* beyond the range /simple accepts
InputsBatch3 == Inputs3 \cup {<<"30", "0">>}

\* Math.min(parseInt(req.params.count) || 3, 10)
batchCount3(count) ==
    LET asked == IF count = 0 THEN 3 ELSE count
    IN  IF asked < 10 THEN asked ELSE 10

\* positions.join(',') of n positions, all computed from the same base
RECURSIVE joinSame(_, _)
joinSame(text, n) ==
    IF n = 0 THEN <<>>
    ELSE IF n = 1 THEN text
    ELSE joinSame(text, n - 1) \o <<",">> \o text

\* body of GET /batch/:token/:count: no range validation before mapToScale
batchBody3(token, asked) ==
    LET count == batchCount3(asked)
    IN  IF ~Truthy(token) THEN centerBatch(count)
        \* baseX.toFixed of an inherited property throws; the catch answers
        \* three center positions
        ELSE IF Inherited(token) THEN centerBatch(3)
        ELSE IF now - sessions[token].ts > ReadTTL3 THEN centerBatch(count)
        ELSE joinSame(formatXY(mapToScale3(sessions[token].x),
                               mapToScale3(sessions[token].y)), count)

\* GET /batch/:token/:count: always status 200; the reply is kept with the
\* request it answers
Batch3(token, asked) ==
    /\ server = "part_003"
    /\ resp' = [op |-> "batch", status |-> 200, error |-> "",
                body |-> batchBody3(token, asked),
                token |-> token, count |-> asked]
    /\ UNCHANGED <<server, sessions, sessionStats, now, sweepDue, issued, inserted>>

NextBatch3 ==
    \/ \E token \in SmoothTokens : Start3(token)
    \/ \E token \in SmoothReqTokens \cup {""}, m \in InputsBatch3 :
          sessionStats.totalUpdates < MaxLifeUpdates /\ Update3(token, m[1], m[2])
    \/ \E token \in SmoothReqTokens : ReadSimple3(token)
    \/ \E token \in BatchTokens, asked \in BatchCounts : Batch3(token, asked)
    \/ Sweep3
    \/ Tick3(SweepInterval3 + 1)

SpecBatch3 == Init3 /\ [][NextBatch3]_vars

\* the positions of a text of positions separated by commas
positionsOf(text) ==
    [k \in 1..((Len(text) + 1) \div 7) |-> SubSeq(text, 7 * k - 6, 7 * k - 1)]

\* C31: in part_003, every position of a /batch reply is the text /simple
\* answers for the same token at the same instant, for any session state
\* and any count.
C31_BatchRepeatsSimple ==
    resp.op = "batch"
    => /\ Len(resp.body) % 7 = 6
       /\ \A k \in DOMAIN positionsOf(resp.body) :
             positionsOf(resp.body)[k] = simpleBody3(resp.token)

----------------------------------------------------------------------------
(* src/unnamed/part_003: the sweep and the staleness test of the reads *)

\* the reads of part_003 answer the sentinel for the session of t
staleForReads3(t) == now - sessions[t].ts > ReadTTL3

\* C32: in part_003, a session leaves the store only when the read endpoints
\* already treat it as stale: no session goes from fresh for reads to absent
\* in one step.
C32_SweptWereStale ==
    [][\A t \in DOMAIN sessions :
          t \notin DOMAIN sessions' => staleForReads3(t)]_vars

----------------------------------------------------------------------------
(* src/unnamed/part_004: the first update of a session *)

\* the session of token has accepted no update since /start created it
noUpdateYet4(token) == token \in DOMAIN sessions /\ sessions[token].requestCount = 0

\* C33: in part_004, a valid /update for a session that has accepted none
\* since /start created it is not throttled, however soon after the creation
\* it arrives, and the session then holds the (clamped) sample.
C33_FirstUpdateNotThrottled ==
    [][\A token \in GenTokens4, m \in Inputs4 :
          ( /\ resp'.op = "update"
            /\ noUpdateYet4(token)
            /\ ~isNaN(parseFloat(m[1])) /\ ~isNaN(parseFloat(m[2]))
            /\ Update4(token, m[1], m[2]) )
          => /\ ~resp'.throttled
             /\ sessions'[token].x = clamp4(parseFloat(m[1]))
             /\ sessions'[token].y = clamp4(parseFloat(m[2]))]_vars

----------------------------------------------------------------------------
(* src/unnamed/part_004: the size of the store *)

\* C34: in part_004 the store holds at most MAX_SESSIONS sessions in every
\* reachable state, so that a run of cleanupSessions never finds more than
\* MAX_SESSIONS live sessions and never evicts one.
C34_StoreWithinCapacity ==
    server = "part_004"
    => /\ Cardinality(DOMAIN sessions) <= MAX_SESSIONS
       /\ toRemove(sessions, now) = {}

----------------------------------------------------------------------------
(* First server of src/index.js: a token the sweep has removed *)

\* /start returned t and the store no longer holds it: the sweep, the only
\* code of the first server that deletes, has removed it
swept(t) == t \in issued /\ ~HasOwn(t)

\* C35: in the first server, while a token the sweep removed is out of the
\* store, every read of it answers the sentinel, every /update with it is
\* answered 400 with the invalid-token error and leaves the store as it was,
\* and only /start makes it a key of the store again.
C35_SweptStaysOut ==
    [][\A t \in GenTokens :
          swept(t)
          => /\ simpleBody(t) = X05Y05 /\ xBody(t) = Zero /\ yBody(t) = Zero
             /\ \A m \in LifecycleInputs :
                   Update(t, m[1], m[2])
                   => /\ resp'.status = 400
                      /\ resp'.error = "Invalid or expired token"
                      /\ sessions' = sessions
             /\ t \in DOMAIN sessions' => resp'.op = "start"]_vars

\* every token /start returned has been swept, and an /update sent afterwards
\* has been refused as invalid
C35_Witness ==
    /\ server = "index1"
    /\ issued # {} /\ sessions = <<>>
    /\ resp.op = "update" /\ resp.error = "Invalid or expired token"
    /\ sessionStats.totalUpdates = 0

----------------------------------------------------------------------------
(* src/unnamed/part_004: GET /simple/:token *)

ReadTTL4 == 60000
SanityBound4 == 12
MapRange4 == 8

\* updates of the /simple runs: samples beyond the clamp on both sides, the
\* two infinities, and samples at the ends of the mapped range and within
\* the range /simple accepts
InputsSimple4 ==
    { <<"30", "-30">>, <<"-Infinity", "Infinity">>, <<"10", "-8">>, <<"4", "0">> }

\* Math.abs(validX) > 12 || Math.abs(validY) > 12
extreme4(x, y) ==
    \/ NumGt(MathAbs(x), Int2Num(SanityBound4))
    \/ NumGt(MathAbs(y), Int2Num(SanityBound4))

\* mapToScale without the + 1: a wrong variant that C37 must reject
mapToScale4NoOffset(velocity) ==
    LET clamped == MathMax(Int2Num(0 - MapRange4), MathMin(Int2Num(MapRange4), velocity))
        scaled == MathRound(NumScale(NumAdd(clamped, Int2Num(MapRange4)), 8, 2 * MapRange4))
    IN  MathMax(Int2Num(1), MathMin(Int2Num(9), scaled))

\* mapToScale: Math.round(((clamped + 8) / 16) * 8) + 1, within 1..9
mapToScale4(velocity) ==
    LET clamped == MathMax(Int2Num(0 - MapRange4), MathMin(Int2Num(MapRange4), velocity))
        scaled == NumAdd(MathRound(NumScale(NumAdd(clamped, Int2Num(MapRange4)),
                                            8, 2 * MapRange4)),
                         Int2Num(1))
    IN  MathMax(Int2Num(1), MathMin(Int2Num(9), scaled))

\* validX, validY: both axes are reset to the center when either is extreme
valid4(token, axis) ==
    IF extreme4(sessions[token].x, sessions[token].y) THEN Int2Num(0)
    ELSE sessions[token][axis]

\* body of GET /simple/:token
simpleBody4(token) ==
    IF ~Truthy4(sessions, token) THEN X05Y05
    \* validX.toFixed of an inherited property throws; the catch answers
    ELSE IF token \notin DOMAIN sessions THEN X05Y05
    ELSE IF now - sessions[token].ts > ReadTTL4 THEN X05Y05
    ELSE formatXY(mapToScale4(valid4(token, "x")), mapToScale4(valid4(token, "y")))

\* GET /simple/:token: always status 200
ReadSimple4(token) ==
    /\ server = "part_004"
    /\ resp' = [op |-> "simple", status |-> 200, error |-> "", token |-> token,
                throttled |-> FALSE, body |-> simpleBody4(token)]
    /\ UNCHANGED <<server, sessions, sessionStats, now, sweepDue, issued, inserted>>

\* part_004 with one phone, whose token is the only one /start draws, and a
\* client of /simple
NextSimple4 ==
    \/ \E token \in SmoothTokens : Start4(Draws(token, 1, token))
    \/ \E token \in SmoothTokens \cup ProtoKeys4, m \in InputsSimple4 :
          /\ accepted4 < MaxUpdates4
          /\ Update4(token, m[1], m[2])
    \/ \E token \in SmoothTokens \cup ProtoKeys4 : ReadSimple4(token)
    \/ Sweep4
    \/ \E d \in {20, Pause4} : Tick4(d)

SpecSimple4 == Init4 /\ [][NextSimple4]_vars

----------------------------------------------------------------------------
(* src/unnamed/part_004: the range of the stored sample *)

\* -15 <= v <= 15
withinClamp(v) == NumLe(Int2Num(0 - ClampXY), v) /\ NumLe(v, Int2Num(ClampXY))

\* C36: in part_004, the x and y of every session in the store are within
\* [-15, 15], whatever numeric inputs the updates carried.
C36_StoredWithinClamp ==
    server = "part_004"
    => \A t \in DOMAIN sessions :
          withinClamp(sessions[t].x) /\ withinClamp(sessions[t].y)

\* updates carrying x = 30, y = -30 and x = -Infinity, y = Infinity have been
\* accepted, and the second is stored as -15 and 15
C36_Witness ==
    /\ server = "part_004"
    /\ resp.op = "update" /\ resp.status = 200 /\ ~resp.throttled
    /\ \E t \in DOMAIN sessions :
          /\ sessions[t].requestCount = 2
          /\ sessions[t].x = Int2Num(0 - ClampXY)
          /\ sessions[t].y = Int2Num(ClampXY)

----------------------------------------------------------------------------
(* src/unnamed/part_004: mapToScale over the velocities a session can hold *)

\* the stored velocities of the runs: the multiples of 1 / Steps in [-15, 15]
Steps == 4
VelocityGrid == {Fin(k, Steps) : k \in (0 - ClampXY * Steps)..(ClampXY * Steps)}

\* the phone's session holds a velocity of the grid on x, as one accepted
\* update leaves it
InitScale4 ==
    /\ server = "part_004"
    /\ \E v \in VelocityGrid :
          /\ sessions = [t \in SmoothTokens |->
                           [x |-> v, y |-> Int2Num(0), ts |-> 0, created |-> 0,
                            requestCount |-> 1, lastUpdate |-> 0]]
          /\ inserted = [t \in GenTokens4 \cup ProtoKeys4 |->
                           IF t \in SmoothTokens
                           THEN << [x |-> v, y |-> Int2Num(0), at |-> 0] >>
                           ELSE <<>>]
    /\ sessionStats = [totalCreated |-> 0, totalUpdates |-> 0, currentActive |-> 0]
    /\ now = 0
    /\ sweepDue = CLEANUP_INTERVAL
    /\ issued = SmoothTokens
    /\ resp = Reply4("update", 200, "", "", FALSE)

NextScale4 == \E token \in SmoothTokens : ReadSimple4(token)

SpecScale4 == InitScale4 /\ [][NextScale4]_vars

\* C37: mapToScale of /simple of part_004 is monotone non-decreasing in the
\* stored velocity, maps -8 to 1, 0 to 5 and 8 to 9, every velocity below -8
\* to 1 and every velocity above 8 (up to the guard bound 12, and beyond) to 9.
C37_MapToScaleMonotone ==
    \A t \in DOMAIN sessions :
        LET v == sessions[t].x
        IN  /\ \A w \in VelocityGrid :
                  NumLe(v, w) => NumLe(mapToScale4(v), mapToScale4(w))
            /\ v = Int2Num(0 - MapRange4) => mapToScale4(v) = Int2Num(1)
            /\ v = Int2Num(0) => mapToScale4(v) = Int2Num(5)
            /\ v = Int2Num(MapRange4) => mapToScale4(v) = Int2Num(9)
            /\ NumLt(v, Int2Num(0 - MapRange4)) => mapToScale4(v) = Int2Num(1)
            /\ NumGt(v, Int2Num(MapRange4)) => mapToScale4(v) = Int2Num(9)

\* /simple has answered for a stored x between 8 and the guard bound 12
C37_Witness ==
    /\ resp.op = "simple"
    /\ \E t \in DOMAIN sessions :
          /\ sessions[t].x = Int2Num(10)
          /\ resp.body = <<"X", "0", "9", "Y", "0", "5">>

----------------------------------------------------------------------------
(* First server of src/index.js: the session counters *)

\* C38: in the first server, after every request handler and every run of
\* the sweep, sessionStats.currentActive is the number of sessions in the
\* store and sessionStats.totalCreated is not smaller.
C38_ActiveCountsStore ==
    server = "index1"
    => /\ sessionStats.currentActive = Cardinality(DOMAIN sessions)
       /\ sessionStats.totalCreated >= sessionStats.currentActive

\* the sweep has just removed a session: fewer are active than were created
C38_Witness ==
    /\ server = "index1"
    /\ resp.op = "sweep"
    /\ issued \ DOMAIN sessions # {}
    /\ sessionStats.currentActive < sessionStats.totalCreated

====
